---- MODULE Spec2Model ----
(***************************************************************************)
(* A model of jbundle: the JDK cache acquisition (jvm/mod.rs), the         *)
(* downloader (jvm/download.rs), the packer and launcher stub (pack/),     *)
(* the archive shrinker (shrink/mod.rs) and the build pipeline (main.rs).  *)
(* Each subsystem has its own specification over its own variables; the    *)
(* variables of the other subsystems stay at their idle values.            *)
(***************************************************************************)
EXTENDS Integers, Sequences, FiniteSets, TLC

VARIABLES
    \* ---- ensure_jdk, one call per process (jvm/mod.rs) ----
    pc,          \* pc[p]: position of process p inside ensure_jdk
    lockHolder,  \* the processes holding the exclusive flock on <cache_path>.lock
    lockFile,    \* TRUE once <cache_path>.lock has been created
    cacheDir,    \* state of the directory cache_path: "absent", "partial", "complete"
    tmpDir,      \* state of the extraction temp directory: "absent", "partial", "full"
    warned,      \* warned[p]: the local `warned` of ensure_jdk
    result,      \* result[p]: the value of the `result` closure of ensure_jdk
    ret,         \* ret[p]: what the call returned ("none" while running)
    via,         \* ret[p] = "path" was returned on the "fast" path, the "recheck" or after "populate"
    performed,   \* performed[p]: p entered the download+extraction block
    extracted,   \* extracted[p]: p's extraction renamed the tree into cache_path
    downloaded,  \* downloaded[p]: p called download::download_jdk
    inode,       \* the number of the lockfile now at <cache_path>.lock (counts its creations)
    fd,          \* fd[p]: the number of the lockfile p has opened, 0 before
    cleans,      \* the number of run_clean calls that returned
    clPc,        \* run_clean: "idle" or "removing"
    \* ---- download_jdk (jvm/download.rs) ----
    dlPc,        \* "idle", "start", "attempt", "sleep", "done"
    asset,       \* the content whose SHA-256 is release.binary.package.checksum
    dest,        \* the file at dest: <<>> when absent, <<c>> when it holds content c
    attempt,     \* the loop variable `attempt`
    lastError,   \* the local last_error (the kind of the message), or None
    dlRet,       \* what download_jdk returned (None while running)
    hashed,      \* the file contents file_sha256 last read in this call, <<>> if none
    outcomes,    \* the outcome of each try_download so far
    sleeps,      \* the seconds of each tokio::time::sleep so far
    \* ---- create_binary (pack/mod.rs, pack/stub.rs) ----
    pkPc,        \* position inside create_binary
    opts,        \* PackOptions and the sizes of the packed regions
    stub,        \* stub_script after finalize_stub, a string (<<>> before)
    outFile,     \* the bytes of the file at opts.output (<<>> when absent or empty)
    outExists,   \* a file exists at opts.output
    outMode,     \* its permission bits: "0755" (executable) or "other"
    pkRet,       \* what create_binary returned (None while running)
    \* ---- should_skip applied to one name (shrink/mod.rs) ----
    skPc,        \* "idle", "start", "done"
    skName,      \* the entry name
    skResult,    \* what should_skip returned
    \* ---- shrink_jar (shrink/mod.rs) ----
    shPc,        \* "idle", "start", "loop", "done", "failed"
    archive,     \* the entries of the source archive, in order
    shIdx,       \* the loop variable i, counted from 1
    buf,         \* the local buf
    outArc,      \* the entries written to the output archive so far
    shRet,       \* what shrink_jar returned (None while running)
    \* ---- run_build (main.rs) ----
    bPc,         \* the stage run_build is about to run, or "idle", "done"
    config,      \* BuildConfig, and what the environment holds for it
    jar_path,    \* the binding jar_path: None, "original" or "shrunk"
    sizes,       \* ShrinkResult.original_size and .shrunk_size (0 before)
    shrinkMsg,   \* the message the shrink step finished with, or None
    jarUsed,     \* jarUsed[stage]: the archive handed to that stage, or None
    started,     \* the stages started so far, in order
    crac_path,   \* the binding crac_path: None or "cp"
    cracMsg,     \* the message the checkpoint step finished with, or None
    bRet,        \* what run_build returned (None while running)
    rt,          \* the runtime image: existing_runtime, runtime_path, what was linked, written and packed
    \* ---- resolve_java_version (validate.rs) ----
    vPc,         \* "idle", "open", "scan", "resolve", "done"
    vArchive,    \* the entries of the archive at jar_path, in order
    vConfigured, \* the argument configured (u8)
    vExplicit,   \* the argument explicit
    vIdx,        \* the loop variable i, counted from 1
    checked,     \* the local checked
    max,         \* the local max: <<>> for None, <<info>> for Some(info)
    vRet,        \* what resolve_java_version returned (tag None while running)
    \* ---- the lock wait of ensure_jdk with its clock (jvm/mod.rs:39-60) ----
    lwPc,        \* "idle", "poll", "sleep", "locked", "done"
    now,         \* start.elapsed(), in milliseconds
    lastPoll,    \* start.elapsed() at the previous try_lock_exclusive, -1 before the first
    lwBusy,      \* another process holds the flock
    lwWarned,    \* the local `warned`
    warnings,    \* the number of tracing::warn! calls of this call
    lwPerformed, \* this call entered the download+extraction block
    lwRet,       \* what the call returned so far (None while running)
    \* ---- one run of the launcher script (pack/stub.rs) ----
    lnPc,        \* the line the shell is at, or "idle", "done"
    host,        \* $(uname)
    cracSize,    \* $CRAC_SIZE
    cached,      \* cached[d]: the directory d of the launcher cache is populated
    restoreTried,   \* the script reached the exec of the CRaC restore
    restoreFailed,  \* that attempt did not bring the application up
    normalLaunch,   \* the script reached the exec of `java ... -jar app.jar`
    lnExit,      \* how the shell process ended (None while it runs)
    \* ---- the module detection step of run_build (jlink.rs, main.rs) ----
    mdPc,        \* position in the step, or "idle"
    jar_str_ok,  \* jar_path.to_str() is Some
    output,      \* what Command::output() gave for jdeps
    mdRet,       \* what detect_modules returned
    modules,     \* run_build's `modules` once the step has produced it
    modules_override,  \* config.modules_override
    detected_modules,  \* the add_modules of the selected Gradle sub-project
    \* ---- the build command of main (main.rs:52-200) ----
    cfPc,        \* the option main resolves next, or "idle", "run_build", "aborted"
    hasFile,     \* jbundle.toml exists in the project directory
    cur,         \* the option resolved last: what the command line and the file gave
    buildConfig, \* the BuildConfig fields bound so far (Unset before)
    cfRet,       \* the error main returned, None otherwise
    pipelineStarted, \* run_build or run_build_all was called
    \* ---- hash_file applied to two files (pack/archive.rs) ----
    hPc,         \* "idle", "x", "y", "again", "done"
    fileX,       \* the content of the first file
    fileY,       \* the content of the second file
    hashes,      \* the strings returned so far, in call order
    \* ---- analyze_jar (analyze/mod.rs) ----
    anPc,        \* "idle", "loop", "report", "done", "failed"
    anJar,       \* the entries of the archive, in order: name and uncompressed size
    anIdx,       \* the loop variable i, counted from 1
    class_occurrences,  \* the count of each class entry name so far
    large_resources,    \* the local large_resources
    issues,      \* report.issues (<<>> before the report is built)
    anRet,       \* what analyze_jar returned (None while running)
    \* ---- the loop of finalize_stub (pack/stub.rs:110-119) ----
    fxPc, \* "idle", "loop", "done"
    fxBaseLen, \* stub.len() - placeholder.len()
    fxSize, \* the local size
    iterations, \* the passes through the loop body so far
    \* ---- pack/stub.rs: runs of one packed executable sharing one cache ----
    runPc, \* runPc[r]: the line of the script run r is at
    uname, \* $(uname) of the host the runs share
    runCracSize, \* $CRAC_SIZE baked into the script
    rtArchive, \* the entries of the embedded runtime.tar.gz, in archive order
    RT_DIR, \* the entries present under $CACHE/rt-$RT_HASH
    APP_JAR, \* the state of $CACHE/app-$APP_HASH/app.jar
    CRAC_DIR, \* the entries present under $CACHE/crac-$CRAC_HASH
    tarPos, \* tarPos[r]: the archive entries the tar of run r has extracted
    did_extract, \* did_extract[r]: the cache directories run r started to extract
    did_skip, \* did_skip[r]: the cache directories run r found cached
    afterComplete, \* afterComplete[r]: r started after some run had completed extraction
    launchedFrom, \* launchedFrom[r]: what run r handed to exec java
    \* ---- crac.rs: one call of create_checkpoint ----
    ckPc, \* the line create_checkpoint is at
    child, \* the launched application: "none", "running", "exited" (not yet reaped), "reaped"
    cr_dir, \* the files in work_dir/cr
    checkpoint_requested, \* jcmd JDK.checkpoint reached the application
    ckElapsed, \* start.elapsed() of wait_for_exit, in seconds
    ckRet \* what create_checkpoint returned (None while running)

cacheVars == <<pc, lockHolder, lockFile, cacheDir, tmpDir, warned, result, ret, via,
               performed, extracted, downloaded, inode, fd, cleans, clPc>>

dlVars == <<dlPc, asset, dest, attempt, lastError, dlRet, hashed, outcomes, sleeps>>

pkVars == <<pkPc, opts, stub, outFile, outExists, outMode, pkRet>>

skVars == <<skPc, skName, skResult>>

shVars == <<shPc, archive, shIdx, buf, outArc, shRet>>

bVars == <<bPc, config, jar_path, sizes, shrinkMsg, jarUsed, started, crac_path, cracMsg,
           bRet, rt>>

vVars == <<vPc, vArchive, vConfigured, vExplicit, vIdx, checked, max, vRet>>

lwVars == <<lwPc, now, lastPoll, lwBusy, lwWarned, warnings, lwPerformed, lwRet>>

lnVars == <<lnPc, host, cracSize, cached, restoreTried, restoreFailed, normalLaunch, lnExit>>

mdVars == <<mdPc, jar_str_ok, output, mdRet, modules, modules_override, detected_modules>>

cfVars == <<cfPc, hasFile, cur, buildConfig, cfRet, pipelineStarted>>

hVars == <<hPc, fileX, fileY, hashes>>

anVars == <<anPc, anJar, anIdx, class_occurrences, large_resources, issues, anRet>>

fxVars == <<fxPc, fxBaseLen, fxSize, iterations>>

lcVars == <<runPc, uname, runCracSize, rtArchive, RT_DIR, APP_JAR, CRAC_DIR, tarPos, did_extract, did_skip, afterComplete, launchedFrom>>

ckVars == <<ckPc, child, cr_dir, checkpoint_requested, ckElapsed, ckRet>>

nonCacheVars == <<dlVars, pkVars, skVars, shVars, bVars, vVars, lwVars, lnVars, mdVars, cfVars, anVars, hVars, fxVars, lcVars, ckVars>>
nonDlVars == <<cacheVars, pkVars, skVars, shVars, bVars, vVars, lwVars, lnVars, mdVars, cfVars, anVars, hVars, fxVars, lcVars, ckVars>>
nonPkVars == <<cacheVars, dlVars, skVars, shVars, bVars, vVars, lwVars, lnVars, mdVars, cfVars, anVars, hVars, fxVars, lcVars, ckVars>>
nonSkVars == <<cacheVars, dlVars, pkVars, shVars, bVars, vVars, lwVars, lnVars, mdVars, cfVars, anVars, hVars, fxVars, lcVars, ckVars>>
nonShVars == <<cacheVars, dlVars, pkVars, skVars, bVars, vVars, lwVars, lnVars, mdVars, cfVars, anVars, hVars, fxVars, lcVars, ckVars>>
nonBVars == <<cacheVars, dlVars, pkVars, skVars, shVars, vVars, lwVars, lnVars, mdVars, cfVars, anVars, hVars, fxVars, lcVars, ckVars>>
nonVVars == <<cacheVars, dlVars, pkVars, skVars, shVars, bVars, lwVars, lnVars, mdVars, cfVars, anVars, hVars, fxVars, lcVars, ckVars>>
nonLwVars == <<cacheVars, dlVars, pkVars, skVars, shVars, bVars, vVars, lnVars, mdVars, cfVars, anVars, hVars, fxVars, lcVars, ckVars>>
nonLnVars == <<cacheVars, dlVars, pkVars, skVars, shVars, bVars, vVars, lwVars, mdVars, cfVars, anVars, hVars, fxVars, lcVars, ckVars>>
nonMdVars == <<cacheVars, dlVars, pkVars, skVars, shVars, bVars, vVars, lwVars, lnVars, cfVars, anVars, hVars, fxVars, lcVars, ckVars>>
nonCfVars == <<cacheVars, dlVars, pkVars, skVars, shVars, bVars, vVars, lwVars, lnVars, mdVars, anVars, hVars, fxVars, lcVars, ckVars>>
nonAnVars == <<cacheVars, dlVars, pkVars, skVars, shVars, bVars, vVars, lwVars, lnVars, mdVars, cfVars, hVars, fxVars, lcVars, ckVars>>
nonHVars == <<cacheVars, dlVars, pkVars, skVars, shVars, bVars, vVars, lwVars, lnVars, mdVars, cfVars, anVars, fxVars, lcVars, ckVars>>

nonFxVars == <<cacheVars, dlVars, pkVars, skVars, shVars, bVars, vVars, lwVars, lnVars, mdVars, cfVars, anVars, hVars, lcVars, ckVars>>

nonLcVars == <<cacheVars, dlVars, pkVars, skVars, shVars, bVars, vVars, lwVars, lnVars, mdVars, cfVars, anVars, hVars, fxVars, ckVars>>

nonCkVars == <<cacheVars, dlVars, pkVars, skVars, shVars, bVars, vVars, lwVars, lnVars, mdVars, cfVars, anVars, hVars, fxVars, lcVars>>

vars == <<cacheVars, dlVars, pkVars, skVars, shVars, bVars, vVars, lwVars, lnVars, mdVars, cfVars, anVars, hVars, fxVars, lcVars, ckVars>>

None == "none"

(***************************************************************************)
(* Bounds.                                                                 *)
(***************************************************************************)
NumProcs == 3
MaxContent == 2      \* file contents are 0..MaxContent
MaxRetryAfter == 7   \* the largest Retry-After value a server sends
MaxArgs == 2         \* the most --jvm-args a build is given
MaxPayload == 2      \* the largest packed region, in units of PayloadUnit bytes
MaxEntries == 3      \* the most entries of a source archive
MaxJarSize == 3      \* the largest archive size, in bytes
MaxScanEntries == 3  \* the most entries of an archive whose classes are scanned
MaxCleans == 1       \* the most run_clean calls during the acquisitions
NumCallers == 2      \* the concurrent calls whose progress is followed under fairness
MaxOversleep == 1    \* the most poll intervals a sleep lasts beyond the one asked for

Procs == 1..NumProcs

(***************************************************************************)
(* ensure_jdk (jvm/mod.rs).  The elapsed time of the lock wait belongs to  *)
(* the environment: in this specification a waiter whose try_lock failed   *)
(* may find start.elapsed() >= LOCK_TIMEOUT at any poll.                   *)
(***************************************************************************)

\* cache_path.exists(): a directory is there, whatever it holds.
CachePathExistsBroken(dir) == FALSE
CachePathExists(dir) == dir # "absent"

\* lock_file.try_lock_exclusive(): succeeds iff no other open file holds the flock.
TryLockExclusiveBroken(holders) == TRUE
TryLockExclusive(holders) == holders = {}

\* The processes that hold the flock on the lockfile numbered g.
HoldersOf(g) == {q \in lockHolder : fd[q] = g}

\* lock_file.unlock(): the flock is released.
UnlockBroken(holders, p) == holders
Unlock(holders, p) == holders \ {p}

\* `result` is what the call returns after the unlock.
SlowPathReturnBroken(res) == "path"
SlowPathReturn(res) == res

CacheIdle ==
    /\ pc = [p \in Procs |-> "idle"]
    /\ lockHolder = {}
    /\ lockFile = FALSE
    /\ cacheDir = "absent"
    /\ tmpDir = "absent"
    /\ warned = [p \in Procs |-> FALSE]
    /\ result = [p \in Procs |-> None]
    /\ ret = [p \in Procs |-> None]
    /\ via = [p \in Procs |-> None]
    /\ performed = [p \in Procs |-> FALSE]
    /\ inode = 0
    /\ fd = [p \in Procs |-> 0]
    /\ cleans = 0
    /\ clPc = "idle"
    /\ extracted = [p \in Procs |-> FALSE]
    /\ downloaded = [p \in Procs |-> FALSE]

\* N calls of ensure_jdk(v, t) on a cold cache.
CacheInit ==
    /\ pc = [p \in Procs |-> "start"]
    /\ lockHolder = {}
    /\ lockFile = FALSE
    /\ cacheDir = "absent"
    /\ tmpDir = "absent"
    /\ warned = [p \in Procs |-> FALSE]
    /\ result = [p \in Procs |-> None]
    /\ ret = [p \in Procs |-> None]
    /\ via = [p \in Procs |-> None]
    /\ performed = [p \in Procs |-> FALSE]
    /\ inode = 0
    /\ fd = [p \in Procs |-> 0]
    /\ cleans = 0
    /\ clPc = "idle"
    /\ extracted = [p \in Procs |-> FALSE]
    /\ downloaded = [p \in Procs |-> FALSE]

\* mod.rs:25-28: the lock-free fast path.
FastPathHit(p) ==
    /\ pc[p] = "start"
    /\ CachePathExists(cacheDir)
    /\ pc' = [pc EXCEPT ![p] = "done"]
    /\ ret' = [ret EXCEPT ![p] = "path"]
    /\ via' = [via EXCEPT ![p] = "fast"]
    /\ UNCHANGED <<lockHolder, lockFile, cacheDir, tmpDir, warned, result, performed, extracted>>
    /\ UNCHANGED <<inode, fd, cleans, clPc, downloaded>>
    /\ UNCHANGED nonCacheVars

FastPathMiss(p) ==
    /\ pc[p] = "start"
    /\ ~CachePathExists(cacheDir)
    /\ pc' = [pc EXCEPT ![p] = "open"]
    /\ UNCHANGED <<lockHolder, lockFile, cacheDir, tmpDir, warned, result, ret, via,
                   performed, extracted>>
    /\ UNCHANGED <<inode, fd, cleans, clPc, downloaded>>
    /\ UNCHANGED nonCacheVars

\* mod.rs:31-37: create the parent directory and open (create, truncate) the lockfile.
OpenLockFile(p) ==
    /\ pc[p] = "open"
    /\ lockFile' = TRUE
    /\ inode' = IF lockFile THEN inode ELSE inode + 1
    /\ fd' = [fd EXCEPT ![p] = inode']
    /\ pc' = [pc EXCEPT ![p] = "poll"]
    /\ UNCHANGED <<lockHolder, cacheDir, tmpDir, warned, result, ret, via, performed, extracted>>
    /\ UNCHANGED <<cleans, clPc, downloaded>>
    /\ UNCHANGED nonCacheVars

\* mod.rs:32,37: the `?` of create_dir_all / open.
OpenLockFileFails(p) ==
    /\ pc[p] = "open"
    /\ pc' = [pc EXCEPT ![p] = "done"]
    /\ ret' = [ret EXCEPT ![p] = "Io"]
    /\ UNCHANGED <<lockHolder, lockFile, cacheDir, tmpDir, warned, result, via,
                   performed, extracted>>
    /\ UNCHANGED <<inode, fd, cleans, clPc, downloaded>>
    /\ UNCHANGED nonCacheVars

\* mod.rs:42-43: the lock is acquired.
LockAcquired(p) ==
    /\ pc[p] = "poll"
    /\ TryLockExclusive(HoldersOf(fd[p]))
    /\ lockHolder' = lockHolder \cup {p}
    /\ pc' = [pc EXCEPT ![p] = "recheck"]
    /\ UNCHANGED <<lockFile, cacheDir, tmpDir, warned, result, ret, via, performed, extracted>>
    /\ UNCHANGED <<inode, fd, cleans, clPc, downloaded>>
    /\ UNCHANGED nonCacheVars

\* mod.rs:44-50: the lock is busy and the timeout has elapsed.
LockTimesOut(p) ==
    /\ pc[p] = "poll"
    /\ ~TryLockExclusive(HoldersOf(fd[p]))
    /\ pc' = [pc EXCEPT ![p] = "done"]
    /\ ret' = [ret EXCEPT ![p] = "CacheLockTimeout"]
    /\ UNCHANGED <<lockHolder, lockFile, cacheDir, tmpDir, warned, result, via,
                   performed, extracted>>
    /\ UNCHANGED <<inode, fd, cleans, clPc, downloaded>>
    /\ UNCHANGED nonCacheVars

\* mod.rs:51-57: the lock is busy: warn once, sleep LOCK_POLL_INTERVAL, poll again.
LockBusy(p) ==
    /\ pc[p] = "poll"
    /\ ~TryLockExclusive(HoldersOf(fd[p]))
    /\ warned' = [warned EXCEPT ![p] = TRUE]
    /\ UNCHANGED <<pc, lockHolder, lockFile, cacheDir, tmpDir, result, ret, via,
                   performed, extracted>>
    /\ UNCHANGED <<inode, fd, cleans, clPc, downloaded>>
    /\ UNCHANGED nonCacheVars

\* mod.rs:63-67: the re-check under the lock finds the cache populated.
RecheckHit(p) ==
    /\ pc[p] = "recheck"
    /\ CachePathExists(cacheDir)
    /\ lockHolder' = Unlock(lockHolder, p)
    /\ pc' = [pc EXCEPT ![p] = "done"]
    /\ ret' = [ret EXCEPT ![p] = "path"]
    /\ via' = [via EXCEPT ![p] = "recheck"]
    /\ UNCHANGED <<lockFile, cacheDir, tmpDir, warned, result, performed, extracted>>
    /\ UNCHANGED <<inode, fd, cleans, clPc, downloaded>>
    /\ UNCHANGED nonCacheVars

RecheckMiss(p) ==
    /\ pc[p] = "recheck"
    /\ ~CachePathExists(cacheDir)
    /\ pc' = [pc EXCEPT ![p] = "fetch"]
    /\ performed' = [performed EXCEPT ![p] = TRUE]
    /\ UNCHANGED <<lockHolder, lockFile, cacheDir, tmpDir, warned, result, ret, via, extracted>>
    /\ UNCHANGED <<inode, fd, cleans, clPc, downloaded>>
    /\ UNCHANGED nonCacheVars

\* mod.rs:70: adoptium::fetch_latest_release, an HTTP lookup that succeeds or fails.
FetchRelease(p) ==
    /\ pc[p] = "fetch"
    /\ \E ok \in BOOLEAN :
          IF ok
          THEN pc' = [pc EXCEPT ![p] = "download"] /\ UNCHANGED result
          ELSE /\ pc' = [pc EXCEPT ![p] = "unlock"]
               /\ result' = [result EXCEPT ![p] = "Http"]
    /\ UNCHANGED <<lockHolder, lockFile, cacheDir, tmpDir, warned, ret, via, performed, extracted>>
    /\ UNCHANGED <<inode, fd, cleans, clPc, downloaded>>
    /\ UNCHANGED nonCacheVars

\* mod.rs:71: download::download_jdk, by its three results.
DownloadArchive(p) ==
    /\ pc[p] = "download"
    /\ downloaded' = [downloaded EXCEPT ![p] = TRUE]
    /\ \E r \in {"Ok", "JdkDownload", "ChecksumMismatch"} :
          IF r = "Ok"
          THEN pc' = [pc EXCEPT ![p] = "extract"] /\ UNCHANGED result
          ELSE /\ pc' = [pc EXCEPT ![p] = "unlock"]
               /\ result' = [result EXCEPT ![p] = r]
    /\ UNCHANGED <<lockHolder, lockFile, cacheDir, tmpDir, warned, ret, via, performed, extracted>>
    /\ UNCHANGED <<inode, fd, cleans, clPc>>
    /\ UNCHANGED nonCacheVars

\* mod.rs:76-78: unlock, then return `result`.
UnlockAndReturn(p) ==
    /\ pc[p] = "unlock"
    /\ lockHolder' = Unlock(lockHolder, p)
    /\ pc' = [pc EXCEPT ![p] = "done"]
    /\ ret' = [ret EXCEPT ![p] = SlowPathReturn(result[p])]
    /\ via' = [via EXCEPT ![p] = IF SlowPathReturn(result[p]) = "path" THEN "populate" ELSE None]
    /\ UNCHANGED <<lockFile, cacheDir, tmpDir, warned, result, performed, extracted>>
    /\ UNCHANGED <<inode, fd, cleans, clPc, downloaded>>
    /\ UNCHANGED nonCacheVars

(***************************************************************************)
(* cache::extract_and_cache is not among the sources; it is modelled from  *)
(* the specification: extraction writes into a temp directory, which is    *)
(* then renamed onto the final cache path in one step.                     *)
(***************************************************************************)
ExtractDest == "tmp"

ExtractBegin(p) ==
    /\ pc[p] = "extract"
    /\ pc' = [pc EXCEPT ![p] = "extracting"]
    /\ IF ExtractDest = "tmp"
       THEN tmpDir' = "partial" /\ UNCHANGED cacheDir
       ELSE cacheDir' = "partial" /\ UNCHANGED tmpDir
    /\ UNCHANGED <<lockHolder, lockFile, warned, result, ret, via, performed, extracted>>
    /\ UNCHANGED <<inode, fd, cleans, clPc, downloaded>>
    /\ UNCHANGED nonCacheVars

ExtractRename(p) ==
    /\ pc[p] = "extracting"
    /\ ExtractDest = "tmp" => tmpDir # "absent"
    /\ pc' = [pc EXCEPT ![p] = "unlock"]
    /\ cacheDir' = "complete"
    /\ tmpDir' = IF ExtractDest = "tmp" THEN "absent" ELSE tmpDir
    /\ result' = [result EXCEPT ![p] = "path"]
    /\ extracted' = [extracted EXCEPT ![p] = TRUE]
    /\ UNCHANGED <<lockHolder, lockFile, warned, ret, via, performed>>
    /\ UNCHANGED <<inode, fd, cleans, clPc, downloaded>>
    /\ UNCHANGED nonCacheVars

\* An I/O error while unpacking: the temp directory is left behind.
ExtractFails(p) ==
    /\ pc[p] = "extracting"
    /\ pc' = [pc EXCEPT ![p] = "unlock"]
    /\ result' = [result EXCEPT ![p] = "Io"]
    /\ UNCHANGED <<lockHolder, lockFile, cacheDir, tmpDir, warned, ret, via,
                   performed, extracted>>
    /\ UNCHANGED <<inode, fd, cleans, clPc, downloaded>>
    /\ UNCHANGED nonCacheVars

\* The process is interrupted (SIGINT, kill) inside the block that runs under the
\* lock: the kernel closes its lock file, which releases the flock; the files it
\* wrote stay as they are.  (An interruption anywhere else leaves no trace.)
Interrupted(p) ==
    /\ pc[p] \in {"fetch", "download", "extract", "extracting"}
    /\ pc' = [pc EXCEPT ![p] = "crashed"]
    /\ lockHolder' = lockHolder \ {p}
    /\ UNCHANGED <<lockFile, cacheDir, tmpDir, warned, result, ret, via, performed, extracted>>
    /\ UNCHANGED <<inode, fd, cleans, clPc, downloaded>>
    /\ UNCHANGED nonCacheVars

\* main.rs:550-560: run_clean, run by a process of its own.  remove_dir_all
\* of the cache directory unlinks the lockfile, the extraction directory and
\* the cached tree, one entry after the other and in no particular order; the
\* files of the cached tree go before its directory.  The open lock files and
\* the flocks on them stay as they are.
CacheDirExists == lockFile \/ cacheDir # "absent" \/ tmpDir # "absent"

\* main.rs:551-552: cache_dir.exists()
CleanStart ==
    /\ clPc = "idle"
    /\ cleans < MaxCleans
    /\ CacheDirExists
    /\ clPc' = "removing"
    /\ UNCHANGED <<pc, lockHolder, lockFile, cacheDir, tmpDir, warned, result, ret, via,
                   performed, extracted, downloaded, inode, fd, cleans>>
    /\ UNCHANGED nonCacheVars

\* main.rs:554: remove_dir_all unlinks one more entry
CleanRemoveEntry ==
    /\ clPc = "removing"
    /\ \/ lockFile /\ lockFile' = FALSE /\ UNCHANGED <<cacheDir, tmpDir>>
       \/ tmpDir # "absent" /\ tmpDir' = "absent" /\ UNCHANGED <<lockFile, cacheDir>>
       \/ cacheDir = "complete" /\ cacheDir' = "partial" /\ UNCHANGED <<lockFile, tmpDir>>
       \/ cacheDir = "partial" /\ cacheDir' = "absent" /\ UNCHANGED <<lockFile, tmpDir>>
    /\ UNCHANGED <<pc, lockHolder, warned, result, ret, via, performed, extracted, inode, fd,
                   cleans, clPc, downloaded>>
    /\ UNCHANGED nonCacheVars

\* main.rs:554-559: nothing is left, run_clean returns
CleanFinish ==
    /\ clPc = "removing"
    /\ ~CacheDirExists
    /\ clPc' = "idle"
    /\ cleans' = cleans + 1
    /\ UNCHANGED <<pc, lockHolder, lockFile, cacheDir, tmpDir, warned, result, ret, via,
                   performed, extracted, downloaded, inode, fd>>
    /\ UNCHANGED nonCacheVars

NextCache ==
    \E p \in Procs :
        \/ FastPathHit(p)
        \/ FastPathMiss(p)
        \/ OpenLockFile(p)
        \/ OpenLockFileFails(p)
        \/ LockAcquired(p)
        \/ LockTimesOut(p)
        \/ LockBusy(p)
        \/ RecheckHit(p)
        \/ RecheckMiss(p)
        \/ FetchRelease(p)
        \/ DownloadArchive(p)
        \/ ExtractBegin(p)
        \/ ExtractRename(p)
        \/ ExtractFails(p)
        \/ UnlockAndReturn(p)
        \/ Interrupted(p)

(***************************************************************************)
(* download_jdk (jvm/download.rs).  A file content is a number in          *)
(* Contents; SHA-256 is modelled as an injective digest of the content.    *)
(***************************************************************************)
MAX_ATTEMPTS == 3
INITIAL_BACKOFF_SECS == 1
RETRY_AFTER_DEFAULT == 5

Contents == 0..MaxContent

RECURSIVE Pow(_, _)
Pow(b, e) == IF e = 0 THEN 1 ELSE b * Pow(b, e - 1)

\* file_sha256: format!("{:x}", hasher.finalize()) of the file's bytes.
file_sha256(content) == <<"sha256", content>>

\* verify_checksum(&dest, expected_sha)
verify_checksumBroken(content, expected) == TRUE
verify_checksum(content, expected) == file_sha256(content) = expected

\* download.rs:57: the delay before the next attempt after a retryable failure.
BackoffBroken(n) == INITIAL_BACKOFF_SECS * Pow(2, n)
Backoff(n) == INITIAL_BACKOFF_SECS * Pow(2, n - 1)

\* download.rs:110-115: the Retry-After header of a 429 response: absent, not an
\* integer, or an integer.
RetryAfterHeaders == {<<"absent">>, <<"text">>} \cup {<<"int", n>> : n \in {0, MaxRetryAfter}}

RetryAfterSecsBroken(h) == RETRY_AFTER_DEFAULT

RetryAfterSecs(h) == IF h[1] = "int" THEN h[2] ELSE RETRY_AFTER_DEFAULT

NoHeaders == <<"none">>

\* The status codes a response may carry.
HttpStatuses == {200, 400, 404, 429, 500, 503}

\* StatusCode::is_success, StatusCode::is_server_error
is_success(status) == status >= 200 /\ status < 300

is_server_errorBroken(status) == status >= 400 /\ status < 600

is_server_error(status) == status >= 500 /\ status < 600

\* download.rs:106-122: what try_download returns for a response that is not
\* a success: the file at dest has not been created yet.
StatusError(status, h) ==
    IF status = 429
    THEN [kind |-> "RetryAfter", wrote |-> <<>>, secs |-> RetryAfterSecs(h), header |-> h]
    ELSE IF is_server_error(status)
    THEN [kind |-> "Retryable", wrote |-> <<>>, secs |-> 0, header |-> NoHeaders]
    ELSE [kind |-> "Permanent", wrote |-> <<>>, secs |-> 0, header |-> NoHeaders]

\* What one try_download can do: complete with some content written to dest;
\* fail with a retryable or a permanent error, leaving dest as it was (the error
\* came before File::create) or holding what was written before the error; or be
\* answered 429, which comes before File::create.
TransferOutcomes ==
    {[kind |-> "Ok", wrote |-> <<c>>, secs |-> 0, header |-> NoHeaders] : c \in Contents}
    \cup {[kind |-> k, wrote |-> w, secs |-> 0, header |-> NoHeaders] :
             k \in {"Retryable", "Permanent"}, w \in {<<>>} \cup {<<c>> : c \in Contents}}
    \cup {StatusError(status, h) :
             status \in {c \in HttpStatuses : ~is_success(c)}, h \in RetryAfterHeaders}

\* download.rs:40-81: the arm of the match an outcome takes.
AttemptArmBroken(o, expected) ==
    IF o.kind = "Ok"
    THEN IF file_sha256(o.wrote[1]) # expected THEN "Retryable" ELSE "Return"
    ELSE o.kind
AttemptArm(o, expected) ==
    IF o.kind = "Ok"
    THEN IF file_sha256(o.wrote[1]) # expected THEN "Mismatch" ELSE "Return"
    ELSE o.kind

DlIdle ==
    /\ dlPc = "idle"
    /\ asset = 0
    /\ dest = <<>>
    /\ attempt = 0
    /\ lastError = None
    /\ dlRet = None
    /\ hashed = <<>>
    /\ outcomes = <<>>
    /\ sleeps = <<>>

\* A call of download_jdk for any asset, with any file (or none) already at dest.
DlInit ==
    /\ dlPc = "start"
    /\ asset \in Contents
    /\ dest \in {<<>>} \cup {<<c>> : c \in Contents}
    /\ attempt = 0
    /\ lastError = None
    /\ dlRet = None
    /\ hashed = <<>>
    /\ outcomes = <<>>
    /\ sleeps = <<>>

expected_sha == file_sha256(asset)

\* std::fs::remove_file(&dest): no file is left at dest.
remove_fileBroken(d) == d
remove_file(d) == <<>>

\* download.rs:27-37: reuse a verified file, delete a stale one.
DlCheckExisting ==
    /\ dlPc = "start"
    /\ IF dest # <<>> /\ verify_checksum(dest[1], expected_sha)
       THEN /\ dlPc' = "done"
            /\ dlRet' = "Ok"
            /\ hashed' = dest
            /\ UNCHANGED <<dest, attempt>>
       ELSE /\ dlPc' = "attempt"
            /\ attempt' = 1
            /\ hashed' = dest
            /\ dest' = remove_file(dest)
            /\ UNCHANGED dlRet
    /\ UNCHANGED <<asset, lastError, outcomes, sleeps>>
    /\ UNCHANGED nonDlVars

\* download.rs:23-32: the `?` of cache_dir and create_dir_all, of verify_checksum
\* (the file at dest cannot be read) and of remove_file (the stale file, whose
\* hash was computed, cannot be deleted): the call returns the I/O error.
DlCheckExistingFails ==
    /\ dlPc = "start"
    /\ \E step \in {"cache_dir", "verify_checksum", "remove_file"} :
          /\ step = "verify_checksum" => dest # <<>>
          /\ step = "remove_file" => dest # <<>> /\ ~verify_checksum(dest[1], expected_sha)
          /\ hashed' = IF step = "remove_file" THEN dest ELSE hashed
    /\ dlPc' = "done"
    /\ dlRet' = "Io"
    /\ UNCHANGED <<asset, dest, attempt, lastError, outcomes, sleeps>>
    /\ UNCHANGED nonDlVars

\* download.rs:39-82: one iteration of the loop: try_download and the arm taken,
\* up to the sleep or the return.
DlAttempt ==
    /\ dlPc = "attempt"
    /\ \E o \in TransferOutcomes :
        LET written == IF o.kind = "Ok" \/ o.wrote # <<>> THEN o.wrote ELSE dest
            arm == AttemptArm(o, expected_sha)
        IN
        /\ outcomes' = Append(outcomes, o)
        /\ CASE arm = "Return" ->
                  /\ hashed' = written
                  /\ dest' = written
                  /\ dlPc' = "done"
                  /\ dlRet' = "Ok"
                  /\ UNCHANGED <<lastError, sleeps>>
             [] arm = "Mismatch" ->
                  /\ hashed' = written
                  /\ dest' = <<>>
                  /\ dlPc' = "done"
                  /\ dlRet' = "ChecksumMismatch"
                  /\ UNCHANGED <<lastError, sleeps>>
             [] arm = "Permanent" ->
                  /\ dest' = <<>>
                  /\ dlPc' = "done"
                  /\ dlRet' = "JdkDownload"
                  /\ UNCHANGED <<lastError, sleeps, hashed>>
             [] arm \in {"Retryable", "RetryAfter"} ->
                  /\ lastError' = o.kind
                  /\ dest' = <<>>
                  /\ UNCHANGED hashed
                  /\ IF attempt < MAX_ATTEMPTS
                     THEN /\ sleeps' = Append(sleeps,
                                 IF arm = "Retryable" THEN Backoff(attempt) ELSE o.secs)
                          /\ dlPc' = "sleep"
                          /\ UNCHANGED dlRet
                     ELSE /\ dlPc' = "done"
                          /\ dlRet' = "JdkDownload"
                          /\ UNCHANGED sleeps
    /\ UNCHANGED <<asset, attempt>>
    /\ UNCHANGED nonDlVars

\* download.rs:62,78: the sleep is over, the loop goes on to the next attempt.
DlWake ==
    /\ dlPc = "sleep"
    /\ dlPc' = "attempt"
    /\ attempt' = attempt + 1
    /\ UNCHANGED <<asset, dest, lastError, dlRet, hashed, outcomes, sleeps>>
    /\ UNCHANGED nonDlVars

NextDownload == DlCheckExisting \/ DlCheckExistingFails \/ DlAttempt \/ DlWake

(***************************************************************************)
(* The launcher stub (pack/stub.rs) and create_binary (pack/mod.rs).       *)
(* A string is a sequence of chunks: a run of n literal bytes, the 13-byte *)
(* text __STUB_SIZE__, a number in decimal, or a 16-character hash.  The   *)
(* field `at` says where in the script the chunk stands.  The output file  *)
(* is a sequence of chunks too: those of the stub, then one chunk per      *)
(* appended region.                                                        *)
(***************************************************************************)
PlaceholderLen == 13
HashLen == 16
PayloadUnit == 6

RECURSIVE Digits(_)
\* n.to_string().len()
Digits(n) == IF n < 10 THEN 1 ELSE 1 + Digits(n \div 10)

Lit(n) == [k |-> "lit", n |-> n, v |-> 0, at |-> "text"]
Placeholder(at) == [k |-> "ph", n |-> PlaceholderLen, v |-> 0, at |-> at]
Num(v, at) == [k |-> "num", n |-> Digits(v), v |-> v, at |-> at]
HashText(h, at) == [k |-> "hash", n |-> HashLen, v |-> h, at |-> at]
Region(n, at) == [k |-> "region", n |-> n, v |-> 0, at |-> at]

RECURSIVE StrLen(_)
\* str::len(): the length in bytes
StrLen(str) == IF str = <<>> THEN 0 ELSE Head(str).n + StrLen(Tail(str))

RECURSIVE JoinArgs(_)
\* jvm_args.join(" ")
JoinArgs(args) ==
    IF args = <<>> THEN <<>>
    ELSE IF Len(args) = 1 THEN args[1]
    ELSE args[1] \o <<Lit(1)>> \o JoinArgs(Tail(args))

\* JvmProfile::flags().join(" ") (config.rs:22-31)
ProfileFlags(profile) == IF profile = "cli" THEN <<Lit(63)>> ELSE <<>>

\* stub.rs:18-30
ProfileAndArgs(profile, args) ==
    LET profile_flags == ProfileFlags(profile)
        jvm_args_str == IF args = <<>> THEN <<>> ELSE <<Lit(1)>> \o JoinArgs(args)
    IN  IF profile_flags = <<>> THEN jvm_args_str
        ELSE IF jvm_args_str = <<>> THEN <<Lit(1)>> \o profile_flags
        ELSE <<Lit(1)>> \o profile_flags \o jvm_args_str

\* stub.rs:41-48
CdsFlagsBroken(appcds, java_version) ==
    IF appcds
    THEN <<[k |-> "lit", n |-> 160, v |-> 0, at |-> "AppCDS"]>>
    ELSE <<Lit(12)>>

CdsFlags(appcds, java_version) ==
    IF appcds /\ java_version >= 19
    THEN <<[k |-> "lit", n |-> 160, v |-> 0, at |-> "AppCDS"]>>
    ELSE <<Lit(12)>>

\* stub.rs:50-100: the script, with the placeholder where STUB_SIZE is assigned.
generate(params) ==
    <<Lit(57), HashText(params.runtime_hash, "RT_HASH"), Lit(13),
      Num(params.runtime_size, "RT_SIZE"),
      Lit(11), HashText(params.app_hash, "APP_HASH"), Lit(13),
      Num(params.app_size, "APP_SIZE"),
      Lit(11), Num(params.crac_size, "CRAC_SIZE"), Lit(18)>>
    \o (IF params.has_crac THEN <<HashText(params.crac_hash, "CRAC_HASH")>> ELSE <<>>)
    \o <<Lit(222), Placeholder("STUB_SIZE"), Lit(511)>>
    \o CdsFlags(params.appcds, params.java_version)
    \o <<Lit(489)>>
    \o ProfileAndArgs(params.profile, params.jvm_args)
    \o <<Lit(71)>>

RECURSIVE FixSize(_, _)
\* stub.rs:111-119: the loop of finalize_stub
FixSize(base_len, size) ==
    LET digits == Digits(size)
        candidate == base_len + digits
    IN  IF Digits(candidate) = digits THEN candidate ELSE FixSize(base_len, candidate)

\* str::replace(placeholder, size): every occurrence is replaced.
ReplacePlaceholder(str, size) ==
    [i \in 1..Len(str) |-> IF str[i].k = "ph" THEN Num(size, str[i].at) ELSE str[i]]

\* stub.rs:104-121
finalize_stub(str) ==
    LET base_len == StrLen(str) - PlaceholderLen
        size == FixSize(base_len, base_len + 1)
    IN  ReplacePlaceholder(str, size)

\* The value the launcher's shell assigns to a variable of the script.
ShellValue(script, name) ==
    LET i == CHOOSE i \in 1..Len(script) : script[i].at = name IN script[i].v

\* The --jvm-args strings a build may be given: a plain flag such as -Xmx512m, and
\* a flag that contains the text __STUB_SIZE__, such as -Dtag=__STUB_SIZE__.
ArgStrings == {<<Lit(8)>>, <<Lit(6), Placeholder("arg")>>}

ArgLists == UNION {[1..n -> ArgStrings] : n \in 0..MaxArgs}

RegionSizes == {n * PayloadUnit : n \in 1..MaxPayload}

\* PackOptions, with each input file by its size in bytes.
PackInputs ==
    [runtime_size : RegionSizes, app_size : RegionSizes,
     has_crac : BOOLEAN, crac_file : RegionSizes,
     profile : {"cli", "server"}, jvm_args : ArgLists,
     appcds : BOOLEAN, java_version : {17, 18, 19, 21},
     output_is_dir : BOOLEAN]

\* The bytes of the files create_binary reads, each content by a number:
\* the application archive and the checkpoint archive it is given, and the
\* runtime archive and the gzipped application it writes to the temp
\* directory.  Gzip output differs from its input.
compress_file(content) == content + 10

FileContent(path) ==
    CASE path = "runtime.tar.gz" -> 1
      [] path = "app.jar" -> 2
      [] path = "app.jar.gz" -> compress_file(2)
      [] path = "checkpoint.tar.gz" -> 4

\* Sha256::new().update(&data).finalize(): the 32 bytes of the digest, as the
\* big-endian number of its first 8 bytes and that of the other 24.  The
\* digest is one-to-one on the modelled contents; contents that differ by a
\* multiple of DigestPrefixes have digests with the same first 8 bytes.
DigestPrefixes == 16

Sha256(content) ==
    [head |-> content % DigestPrefixes, tail |-> content \div DigestPrefixes]

HexDigits == <<"0", "1", "2", "3", "4", "5", "6", "7", "8", "9", "a", "b", "c", "d", "e", "f">>

RECURSIVE LowerHex(_, _)
\* format!("{:x}", ..): value in lowercase hex, `width` digits.
LowerHex(value, width) ==
    IF width = 0 THEN <<>>
    ELSE Append(LowerHex(value \div 16, width - 1), HexDigits[(value % 16) + 1])

\* archive.rs:25-31: hash[..16], the hex digits of the first 8 bytes of the
\* digest, here by the number they spell; hash_string is the String returned.
hash_fileBroken(content) == Sha256(content).tail

hash_file(content) == Sha256(content).head

hash_string(content) == LowerHex(hash_file(content), HashLen)

\* mod.rs:45: the file app_hash is computed from
AppHashSourceBroken == "app.jar.gz"
AppHashSource == "app.jar"

\* mod.rs:36-69: the StubParams create_binary builds.
StubParamsOf(o) ==
    [runtime_hash |-> hash_file(FileContent("runtime.tar.gz")),
     app_hash |-> hash_file(FileContent(AppHashSource)),
     crac_hash |-> IF o.has_crac THEN hash_file(FileContent("checkpoint.tar.gz")) ELSE 0,
     runtime_size |-> o.runtime_size, app_size |-> o.app_size,
     has_crac |-> o.has_crac,
     crac_size |-> IF o.has_crac THEN o.crac_file ELSE 0,
     profile |-> o.profile, jvm_args |-> o.jvm_args,
     appcds |-> o.appcds, java_version |-> o.java_version]

PkIdle ==
    /\ pkPc = "idle"
    /\ opts = <<>>
    /\ stub = <<>>
    /\ outFile = <<>>
    /\ outExists = FALSE
    /\ outMode = "other"
    /\ pkRet = None

\* A call of create_binary; opts.output is absent, a directory, or an older file.
PkInit ==
    /\ pkPc = "start"
    /\ opts \in {o \in PackInputs : ~o.has_crac => o.crac_file = PayloadUnit}
    /\ stub = <<>>
    /\ outExists \in BOOLEAN
    /\ opts.output_is_dir => outExists
    /\ outFile = IF outExists /\ ~opts.output_is_dir THEN <<Region(PayloadUnit, "old")>> ELSE <<>>
    /\ outMode \in (IF outExists /\ ~opts.output_is_dir THEN {"other", "0755"} ELSE {"other"})
    /\ pkRet = None

\* mod.rs:27: opts.output.is_dir()
output_is_dirBroken(o) == FALSE

output_is_dir(o) == o.output_is_dir

\* mod.rs:27-32
PackRefuseDirectory ==
    /\ pkPc = "start"
    /\ output_is_dir(opts)
    /\ pkPc' = "failed"
    /\ pkRet' = "BuildFailed"
    /\ UNCHANGED <<opts, stub, outFile, outExists, outMode>>
    /\ UNCHANGED nonPkVars

\* mod.rs:34-74: the archives in the temp directory, their sizes and hashes, the
\* stub and its finalization, the parent directory of the output.
PackPrepare ==
    /\ pkPc = "start"
    /\ ~output_is_dir(opts)
    /\ stub' = finalize_stub(generate(StubParamsOf(opts)))
    /\ pkPc' = "prepared"
    /\ UNCHANGED <<opts, outFile, outExists, outMode, pkRet>>
    /\ UNCHANGED nonPkVars

\* mod.rs:76: File::create truncates what is there.
PackCreateOutput ==
    /\ pkPc = "prepared"
    /\ outExists' = TRUE
    /\ outFile' = <<>>
    /\ pkPc' = "created"
    /\ UNCHANGED <<opts, stub, outMode, pkRet>>
    /\ UNCHANGED nonPkVars

\* mod.rs:79
PackWriteStub ==
    /\ pkPc = "created"
    /\ outFile' = outFile \o stub
    /\ pkPc' = "stub"
    /\ UNCHANGED <<opts, stub, outExists, outMode, pkRet>>
    /\ UNCHANGED nonPkVars

\* mod.rs:82-83
PackAppendRuntime ==
    /\ pkPc = "stub"
    /\ outFile' = Append(outFile, Region(opts.runtime_size, "runtime.tar.gz"))
    /\ pkPc' = "runtime"
    /\ UNCHANGED <<opts, stub, outExists, outMode, pkRet>>
    /\ UNCHANGED nonPkVars

\* mod.rs:86-87
PackAppendApp ==
    /\ pkPc = "runtime"
    /\ outFile' = Append(outFile, Region(opts.app_size, "app.jar.gz"))
    /\ pkPc' = "app"
    /\ UNCHANGED <<opts, stub, outExists, outMode, pkRet>>
    /\ UNCHANGED nonPkVars

\* mod.rs:90-93
PackAppendCheckpoint ==
    /\ pkPc = "app"
    /\ outFile' = IF opts.has_crac
                  THEN Append(outFile, Region(opts.crac_file, "checkpoint.tar.gz"))
                  ELSE outFile
    /\ pkPc' = "payload"
    /\ UNCHANGED <<opts, stub, outExists, outMode, pkRet>>
    /\ UNCHANGED nonPkVars

\* mod.rs:95-104
PackSetPermissions ==
    /\ pkPc = "payload"
    /\ outMode' = "0755"
    /\ pkPc' = "done"
    /\ pkRet' = "Ok"
    /\ UNCHANGED <<opts, stub, outFile, outExists>>
    /\ UNCHANGED nonPkVars

\* Any `?` of create_binary after the directory check: an I/O error ends the call
\* where it stands.
PackIoError ==
    /\ pkPc \in {"start", "prepared", "created", "stub", "runtime", "app", "payload"}
    /\ ~(pkPc = "start" /\ output_is_dir(opts))
    /\ pkPc' = "failed"
    /\ pkRet' = "Io"
    /\ UNCHANGED <<opts, stub, outFile, outExists, outMode>>
    /\ UNCHANGED nonPkVars

NextPack ==
    \/ PackRefuseDirectory
    \/ PackPrepare
    \/ PackCreateOutput
    \/ PackWriteStub
    \/ PackAppendRuntime
    \/ PackAppendApp
    \/ PackAppendCheckpoint
    \/ PackSetPermissions
    \/ PackIoError

(***************************************************************************)
(* should_skip and shrink_jar (shrink/mod.rs).  An entry name is the       *)
(* sequence of its characters.                                             *)
(***************************************************************************)
starts_with(str, prefix) ==
    Len(str) >= Len(prefix) /\ SubSeq(str, 1, Len(prefix)) = prefix

ends_with(str, suffix) ==
    Len(str) >= Len(suffix) /\ SubSeq(str, Len(str) - Len(suffix) + 1, Len(str)) = suffix

\* str::strip_prefix of a name that starts with the prefix
strip_prefix(str, prefix) == SubSeq(str, Len(prefix) + 1, Len(str))

UpperCase == <<"A", "B", "C", "D", "E", "F", "G", "H", "I", "J", "K", "L", "M", "N", "O", "P", "Q", "R", "S", "T", "U", "V", "W", "X", "Y", "Z">>
LowerCase == <<"a", "b", "c", "d", "e", "f", "g", "h", "i", "j", "k", "l", "m", "n", "o", "p", "q", "r", "s", "t", "u", "v", "w", "x", "y", "z">>

to_lowercase(str) ==
    [i \in 1..Len(str) |->
        IF \E j \in 1..Len(UpperCase) : UpperCase[j] = str[i]
        THEN LowerCase[CHOOSE j \in 1..Len(UpperCase) : UpperCase[j] = str[i]]
        ELSE str[i]]

RECURSIVE LastSegment(_)
\* str.rsplit('/').next(): what follows the last '/'
LastSegment(str) ==
    IF str = <<>> THEN <<>>
    ELSE IF str[Len(str)] = "/" THEN <<>>
    ELSE Append(LastSegment(SubSeq(str, 1, Len(str) - 1)), str[Len(str)])

META_INF == <<"M", "E", "T", "A", "-", "I", "N", "F", "/">>
META_INF_MAVEN == <<"M", "E", "T", "A", "-", "I", "N", "F", "/", "m", "a", "v", "e", "n", "/">>
META_INF_LEININGEN == <<"M", "E", "T", "A", "-", "I", "N", "F", "/", "l", "e", "i", "n", "i", "n", "g", "e", "n", "/">>
PROJECT_CLJ == <<"p", "r", "o", "j", "e", "c", "t", ".", "c", "l", "j">>
MANIFEST_MF == <<"M", "E", "T", "A", "-", "I", "N", "F", "/", "M", "A", "N", "I", "F", "E", "S", "T", ".", "M", "F">>

\* mod.rs:118-120: LICENSE and NOTICE files are kept (legal compliance).
IsLegalNoticeBroken(file_name) == FALSE
IsLegalNotice(file_name) ==
    \/ starts_with(file_name, <<"l", "i", "c", "e", "n", "s", "e">>)
    \/ starts_with(file_name, <<"n", "o", "t", "i", "c", "e">>)

\* mod.rs:92-95: the suffixes of JAR signature files.
IsSignatureBroken(file_name) ==
    \/ ends_with(file_name, <<".", "S", "F">>)
    \/ ends_with(file_name, <<".", "D", "S", "A">>)
    \/ ends_with(file_name, <<".", "R", "S", "A">>)

IsSignature(file_name) ==
    \/ ends_with(file_name, <<".", "S", "F">>)
    \/ ends_with(file_name, <<".", "D", "S", "A">>)
    \/ ends_with(file_name, <<".", "R", "S", "A">>)
    \/ ends_with(file_name, <<".", "E", "C">>)

\* shrink/mod.rs:84-127
should_skip(name) ==
    IF starts_with(name, META_INF_MAVEN) THEN TRUE
    ELSE IF /\ starts_with(name, META_INF)
            /\ IsSignature(strip_prefix(name, META_INF))
         THEN TRUE
    ELSE IF ends_with(name, <<".", "j", "a", "v", "a">>) THEN TRUE
    ELSE IF name = META_INF_LEININGEN \/ starts_with(name, META_INF_LEININGEN) THEN TRUE
    ELSE IF name = PROJECT_CLJ THEN TRUE
    ELSE IF /\ starts_with(name, META_INF)
            /\ LET lower == to_lowercase(name)
                   file_name == LastSegment(lower)
               IN  /\ \/ ends_with(lower, <<".", "m", "d">>)
                      \/ ends_with(lower, <<".", "t", "x", "t">>)
                      \/ ends_with(lower, <<".", "h", "t", "m", "l">>)
                   /\ ~IsLegalNotice(file_name)
         THEN TRUE
    ELSE FALSE

\* The entry names considered: a directory part, a base name and an ending.
NameDirs ==
    {<<>>,
     <<"M", "E", "T", "A", "-", "I", "N", "F", "/">>,
     <<"M", "E", "T", "A", "-", "I", "N", "F", "/", "m", "a", "v", "e", "n", "/">>,
     <<"M", "E", "T", "A", "-", "I", "N", "F", "/", "l", "e", "i", "n", "i", "n", "g", "e", "n", "/">>,
     <<"M", "E", "T", "A", "-", "I", "N", "F", "/", "x", "/">>,
     <<"c", "o", "m", "/">>}

NameBases ==
    {<<>>,
     <<"A", "p", "p">>,
     <<"C", "E", "R", "T">>,
     <<"L", "I", "C", "E", "N", "S", "E">>,
     <<"N", "O", "T", "I", "C", "E">>,
     <<"M", "A", "N", "I", "F", "E", "S", "T">>,
     <<"R", "E", "A", "D", "M", "E">>,
     <<"l", "i", "c", "e", "n", "s", "e">>,
     <<"p", "o", "m">>,
     <<"p", "r", "o", "j", "e", "c", "t">>}

NameEndings ==
    {<<>>,
     <<"/">>,
     <<".", "c", "l", "a", "s", "s">>,
     <<".", "c", "l", "j">>,
     <<".", "c", "l", "j", "c">>,
     <<".", "c", "l", "j", "s">>,
     <<".", "j", "a", "v", "a">>,
     <<".", "S", "F">>,
     <<".", "D", "S", "A">>,
     <<".", "R", "S", "A">>,
     <<".", "E", "C">>,
     <<".", "s", "f">>,
     <<".", "m", "d">>,
     <<".", "t", "x", "t">>,
     <<".", "h", "t", "m", "l">>,
     <<".", "T", "X", "T">>,
     <<".", "M", "F">>,
     <<".", "x", "m", "l">>}

EntryNames == {dir \o base \o ending : dir \in NameDirs, base \in NameBases, ending \in NameEndings} \ {<<>>}

SkIdle ==
    /\ skPc = "idle"
    /\ skName = <<>>
    /\ skResult = FALSE

SkInit ==
    /\ skPc = "start"
    /\ skName \in EntryNames
    /\ skResult = FALSE

CallShouldSkip ==
    /\ skPc = "start"
    /\ skResult' = should_skip(skName)
    /\ skPc' = "done"
    /\ UNCHANGED skName
    /\ UNCHANGED nonSkVars

NextSkip == CallShouldSkip

\* zip: an entry is a directory iff its name ends with '/'.
is_dir(name) == name # <<>> /\ name[Len(name)] = "/"

\* The names the entries of a source archive are drawn from (those of the test
\* shrink_removes_skippable_entries, a directory and project.clj).
ArchiveNames ==
    {<<"M", "E", "T", "A", "-", "I", "N", "F", "/", "M", "A", "N", "I", "F", "E", "S", "T", ".", "M", "F">>,
     <<"c", "o", "m", "/">>,
     <<"c", "o", "m", "/", "A", "p", "p", ".", "c", "l", "a", "s", "s">>,
     <<"c", "o", "m", "/", "A", "p", "p", ".", "j", "a", "v", "a">>,
     <<"M", "E", "T", "A", "-", "I", "N", "F", "/", "m", "a", "v", "e", "n", "/", "p", "o", "m", ".", "x", "m", "l">>,
     <<"M", "E", "T", "A", "-", "I", "N", "F", "/", "C", "E", "R", "T", ".", "S", "F">>,
     <<"p", "r", "o", "j", "e", "c", "t", ".", "c", "l", "j">>}

FileData == {<<1>>, <<2, 3>>}

ArchiveEntries ==
    {[name |-> n, data |-> b] : n \in {m \in ArchiveNames : ~is_dir(m)}, b \in FileData}
    \cup {[name |-> n, data |-> <<>>] : n \in {m \in ArchiveNames : is_dir(m)}}

\* The archives ZipArchive presents: up to MaxEntries entries with distinct names.
Archives ==
    {a \in UNION {[1..n -> ArchiveEntries] : n \in 0..MaxEntries} :
        \A i, j \in 1..Len(a) : i # j => a[i].name # a[j].name}

\* mod.rs:55-58: buf.clear(), then entry.read_to_end(&mut buf)
ReadEntryBroken(buffer, data) == buffer \o data
ReadEntry(buffer, data) == data

ShIdle ==
    /\ shPc = "idle"
    /\ archive = <<>>
    /\ shIdx = 0
    /\ buf = <<>>
    /\ outArc = <<>>
    /\ shRet = None

ShInit ==
    /\ shPc = "start"
    /\ archive \in Archives
    /\ shIdx = 0
    /\ buf = <<>>
    /\ outArc = <<>>
    /\ shRet = None

\* mod.rs:18-37: stat and open the source, create the output archive.
ShrinkOpen ==
    /\ shPc = "start"
    /\ shPc' = "loop"
    /\ shIdx' = 1
    /\ UNCHANGED <<archive, buf, outArc, shRet>>
    /\ UNCHANGED nonShVars

\* mod.rs:18-30: the source cannot be read or the output cannot be created.
ShrinkOpenFails ==
    /\ shPc = "start"
    /\ shPc' = "failed"
    /\ shRet' = "ShrinkFailed"
    /\ UNCHANGED <<archive, shIdx, buf, outArc>>
    /\ UNCHANGED nonShVars

\* mod.rs:39-67: one iteration of the loop.
ShrinkEntry ==
    /\ shPc = "loop"
    /\ shIdx <= Len(archive)
    /\ LET entry == archive[shIdx]
           name == entry.name
       IN  IF should_skip(name)
           THEN UNCHANGED <<buf, outArc>>
           ELSE IF is_dir(name)
           THEN /\ outArc' = Append(outArc, [name |-> name, dir |-> TRUE, level |-> 0,
                                             data |-> <<>>])
                /\ UNCHANGED buf
           ELSE /\ buf' = ReadEntry(buf, entry.data)
                /\ outArc' = Append(outArc, [name |-> name, dir |-> FALSE, level |-> 9,
                                             data |-> buf'])
    /\ shIdx' = shIdx + 1
    /\ UNCHANGED <<shPc, archive, shRet>>
    /\ UNCHANGED nonShVars

\* mod.rs:40-65: a zip error on reading or writing the entry.
ShrinkEntryFails ==
    /\ shPc = "loop"
    /\ shIdx <= Len(archive)
    /\ shPc' = "failed"
    /\ shRet' = "ShrinkFailed"
    /\ UNCHANGED <<archive, shIdx, buf, outArc>>
    /\ UNCHANGED nonShVars

\* mod.rs:69-81: finish the output archive and return.
ShrinkFinish ==
    /\ shPc = "loop"
    /\ shIdx > Len(archive)
    /\ shPc' = "done"
    /\ shRet' = "Ok"
    /\ UNCHANGED <<archive, shIdx, buf, outArc>>
    /\ UNCHANGED nonShVars

NextShrink ==
    \/ ShrinkOpen
    \/ ShrinkOpenFails
    \/ ShrinkEntry
    \/ ShrinkEntryFails
    \/ ShrinkFinish

(***************************************************************************)
(* run_build (main.rs).  One action per stage; what a stage computes is    *)
(* left to the environment, except for the archive it is handed and the    *)
(* bindings it leaves behind.                                              *)
(***************************************************************************)
\* config.jlink_runtime and what the file system holds at that path: the option
\* is absent, or names a path that does not exist, that exists without
\* bin/java, or that exists with bin/java.
JlinkRuntimes ==
    {[given |-> FALSE, exists |-> FALSE, bin_java |-> FALSE],
     [given |-> TRUE, exists |-> FALSE, bin_java |-> FALSE],
     [given |-> TRUE, exists |-> TRUE, bin_java |-> FALSE],
     [given |-> TRUE, exists |-> TRUE, bin_java |-> TRUE]}

PROVIDED == "provided"            \* the path given with --jlink-runtime
TEMP_RUNTIME == "temp/runtime"    \* temp_dir.path().join("runtime")
TEMP_CR == "temp/cr"              \* temp_dir.path().join("cr")
TEMP_CRAC_TAR == "temp/crac.tar.gz"
OUTPUT == "output"                \* config.output

\* main.rs:443-456: the provided runtime is kept only if it exists and holds
\* bin/java; None otherwise.
ExistingRuntimeBroken(jr) == IF jr.given THEN PROVIDED ELSE None
ExistingRuntime(jr) ==
    IF ~jr.given THEN None
    ELSE IF ~jr.exists THEN None
    ELSE IF ~jr.bin_java THEN None
    ELSE PROVIDED

NoRuntime ==
    [existing_runtime |-> None, runtime_path |-> None, linker_runs |-> 0,
     written |-> {}, packed |-> None]

\* BuildConfig: the fields run_build branches on, and whether the detected
\* build is a Gradle multi-project.
Configs ==
    [is_jar_input : BOOLEAN, multi_project : BOOLEAN, shrink : BOOLEAN,
     crac : BOOLEAN, modules_override : BOOLEAN, jlink_runtime : JlinkRuntimes]

\* The stages that are handed jar_path.
JarStages == {"version", "modules", "checkpoint", "pack"}

JarSizes == 1..MaxJarSize

REDUCED == "reduced"
NO_REDUCTION == "no reduction (using original)"

\* main.rs:512, 516
CHECKPOINT_DONE == "checkpoint"
CHECKPOINT_SKIPPED == "skipped"

\* main.rs:415-429
ShrinkMessage(res) ==
    IF res.shrunk_size < res.original_size THEN REDUCED ELSE NO_REDUCTION

\* main.rs:430: the value of the `if config.shrink` block
ShrinkStageJar(res) == "shrunk"

BIdle ==
    /\ bPc = "idle"
    /\ config = None
    /\ jar_path = None
    /\ sizes = [original_size |-> 0, shrunk_size |-> 0]
    /\ shrinkMsg = None
    /\ jarUsed = [st \in JarStages |-> None]
    /\ started = <<>>
    /\ crac_path = None
    /\ cracMsg = None
    /\ bRet = None
    /\ rt = NoRuntime

BInit ==
    /\ bPc = "input"
    /\ config \in Configs
    /\ jar_path = None
    /\ sizes = [original_size |-> 0, shrunk_size |-> 0]
    /\ shrinkMsg = None
    /\ jarUsed = [st \in JarStages |-> None]
    /\ started = <<>>
    /\ crac_path = None
    /\ cracMsg = None
    /\ bRet = None
    /\ rt = NoRuntime

\* A stage that was started returns an error and `?` ends run_build.
StageFailsBroken(stage) ==
    /\ started' = Append(started, stage)
    /\ bPc' = "pack"
    /\ UNCHANGED <<config, jar_path, sizes, shrinkMsg, jarUsed, crac_path, cracMsg, bRet>>
    /\ UNCHANGED rt
    /\ UNCHANGED nonBVars
StageFails(stage) ==
    /\ started' = Append(started, stage)
    /\ jarUsed' = IF stage \in JarStages THEN [jarUsed EXCEPT ![stage] = jar_path]
                  ELSE jarUsed
    /\ bRet' = "err"
    /\ bPc' = "done"
    /\ rt' = IF stage = "runtime" THEN [rt EXCEPT !.linker_runs = @ + 1] ELSE rt
    /\ UNCHANGED <<config, jar_path, sizes, shrinkMsg, crac_path, cracMsg>>
    /\ UNCHANGED nonBVars

\* main.rs:364-368
BuildUseJar ==
    /\ bPc = "input" /\ config.is_jar_input
    /\ started' = Append(started, "input")
    /\ jar_path' = "original"
    /\ bPc' = "shrink"
    /\ UNCHANGED <<config, sizes, shrinkMsg, jarUsed, crac_path, cracMsg, bRet>>
    /\ UNCHANGED rt
    /\ UNCHANGED nonBVars

\* main.rs:370-375, 394
BuildDetect ==
    /\ bPc = "input" /\ ~config.is_jar_input
    /\ started' = Append(started, "detect")
    /\ bPc' = "uberjar"
    /\ UNCHANGED <<config, jar_path, sizes, shrinkMsg, jarUsed, crac_path, cracMsg, bRet>>
    /\ UNCHANGED rt
    /\ UNCHANGED nonBVars

\* main.rs:371: detect_build_system_enhanced(..)?
BuildDetectFails ==
    /\ bPc = "input" /\ ~config.is_jar_input
    /\ StageFails("detect")

\* main.rs:391-392: select_gradle_subproject(..)? fails before the build step starts
BuildSelectFails ==
    /\ bPc = "uberjar" /\ config.multi_project
    /\ bRet' = "err"
    /\ bPc' = "done"
    /\ UNCHANGED <<config, jar_path, sizes, shrinkMsg, jarUsed, started, crac_path, cracMsg>>
    /\ UNCHANGED rt
    /\ UNCHANGED nonBVars

\* main.rs:377-384, 399-406
BuildUberjar ==
    /\ bPc = "uberjar"
    /\ started' = Append(started, "uberjar")
    /\ jar_path' = "original"
    /\ bPc' = "shrink"
    /\ UNCHANGED <<config, sizes, shrinkMsg, jarUsed, crac_path, cracMsg, bRet>>
    /\ UNCHANGED rt
    /\ UNCHANGED nonBVars

\* main.rs:379, 401
BuildUberjarFails ==
    /\ bPc = "uberjar"
    /\ StageFails("uberjar")

\* main.rs:412-430: shrink_jar returns a ShrinkResult
BuildShrink ==
    /\ bPc = "shrink" /\ config.shrink
    /\ \E o \in JarSizes, n \in JarSizes :
         LET shrink_result == [original_size |-> o, shrunk_size |-> n]
         IN  /\ sizes' = shrink_result
             /\ shrinkMsg' = ShrinkMessage(shrink_result)
             /\ jar_path' = ShrinkStageJar(shrink_result)
    /\ started' = Append(started, "shrink")
    /\ bPc' = "version"
    /\ UNCHANGED <<config, jarUsed, crac_path, cracMsg, bRet>>
    /\ UNCHANGED rt
    /\ UNCHANGED nonBVars

\* main.rs:414: shrink_jar(..)?
BuildShrinkFails ==
    /\ bPc = "shrink" /\ config.shrink
    /\ StageFails("shrink")

\* main.rs:431-432
BuildSkipShrink ==
    /\ bPc = "shrink" /\ ~config.shrink
    /\ bPc' = "version"
    /\ UNCHANGED <<config, jar_path, sizes, shrinkMsg, jarUsed, started, crac_path, cracMsg, bRet>>
    /\ UNCHANGED rt
    /\ UNCHANGED nonBVars

\* main.rs:436-456: the version is resolved and the provided runtime is looked at
BuildResolveVersion ==
    /\ bPc = "version"
    /\ started' = Append(started, "version")
    /\ jarUsed' = [jarUsed EXCEPT !["version"] = jar_path]
    /\ rt' = [rt EXCEPT !.existing_runtime = ExistingRuntime(config.jlink_runtime)]
    /\ bPc' = "jdk"
    /\ UNCHANGED <<config, jar_path, sizes, shrinkMsg, crac_path, cracMsg, bRet>>
    /\ UNCHANGED nonBVars

\* main.rs:441
BuildResolveVersionFails ==
    /\ bPc = "version"
    /\ StageFails("version")

\* main.rs:459-461
BuildEnsureJdk ==
    /\ bPc = "jdk"
    /\ started' = Append(started, "jdk")
    /\ bPc' = "tempdir"
    /\ UNCHANGED <<config, jar_path, sizes, shrinkMsg, jarUsed, crac_path, cracMsg, bRet>>
    /\ UNCHANGED rt
    /\ UNCHANGED nonBVars

\* main.rs:460
BuildEnsureJdkFails ==
    /\ bPc = "jdk"
    /\ StageFails("jdk")

\* main.rs:463
BuildTempDir ==
    /\ bPc = "tempdir"
    /\ bPc' = "modules"
    /\ UNCHANGED <<config, jar_path, sizes, shrinkMsg, jarUsed, started, crac_path, cracMsg, bRet>>
    /\ UNCHANGED rt
    /\ UNCHANGED nonBVars

\* main.rs:463: tempfile::tempdir()?
BuildTempDirFails ==
    /\ bPc = "tempdir"
    /\ bRet' = "err"
    /\ bPc' = "done"
    /\ UNCHANGED <<config, jar_path, sizes, shrinkMsg, jarUsed, started, crac_path, cracMsg>>
    /\ UNCHANGED rt
    /\ UNCHANGED nonBVars

\* main.rs:466-471
BuildModulesOverride ==
    /\ bPc = "modules" /\ config.modules_override
    /\ started' = Append(started, "modules")
    /\ bPc' = "runtime"
    /\ UNCHANGED <<config, jar_path, sizes, shrinkMsg, jarUsed, crac_path, cracMsg, bRet>>
    /\ UNCHANGED rt
    /\ UNCHANGED nonBVars

\* main.rs:472-491
BuildDetectModules ==
    /\ bPc = "modules" /\ ~config.modules_override
    /\ started' = Append(started, "modules")
    /\ jarUsed' = [jarUsed EXCEPT !["modules"] = jar_path]
    /\ bPc' = "runtime"
    /\ UNCHANGED <<config, jar_path, sizes, shrinkMsg, crac_path, cracMsg, bRet>>
    /\ UNCHANGED rt
    /\ UNCHANGED nonBVars

\* main.rs:475
BuildDetectModulesFails ==
    /\ bPc = "modules" /\ ~config.modules_override
    /\ StageFails("modules")

\* main.rs:495-498
BuildReuseRuntime ==
    /\ bPc = "runtime" /\ rt.existing_runtime # None
    /\ started' = Append(started, "runtime")
    /\ rt' = [rt EXCEPT !.runtime_path = rt.existing_runtime]
    /\ bPc' = "checkpoint"
    /\ UNCHANGED <<config, jar_path, sizes, shrinkMsg, jarUsed, crac_path, cracMsg, bRet>>
    /\ UNCHANGED nonBVars

\* main.rs:499-503
BuildCreateRuntime ==
    /\ bPc = "runtime" /\ rt.existing_runtime = None
    /\ started' = Append(started, "runtime")
    /\ rt' = [rt EXCEPT !.runtime_path = TEMP_RUNTIME, !.linker_runs = @ + 1,
                        !.written = @ \cup {TEMP_RUNTIME}]
    /\ bPc' = "checkpoint"
    /\ UNCHANGED <<config, jar_path, sizes, shrinkMsg, jarUsed, crac_path, cracMsg, bRet>>
    /\ UNCHANGED nonBVars

\* main.rs:501
BuildCreateRuntimeFails ==
    /\ bPc = "runtime" /\ rt.existing_runtime = None
    /\ StageFails("runtime")

\* main.rs:507-514: create_checkpoint returned Ok(cp)
BuildCheckpoint ==
    /\ bPc = "checkpoint" /\ config.crac
    /\ started' = Append(started, "checkpoint")
    /\ jarUsed' = [jarUsed EXCEPT !["checkpoint"] = jar_path]
    /\ crac_path' = "cp"
    /\ cracMsg' = CHECKPOINT_DONE
    /\ bPc' = "pack"
    /\ UNCHANGED <<config, jar_path, sizes, shrinkMsg, bRet>>
    /\ rt' = [rt EXCEPT !.written = @ \cup {TEMP_CR, TEMP_CRAC_TAR}]
    /\ UNCHANGED nonBVars

\* main.rs:515-518: create_checkpoint returned Err(e)
BuildCheckpointSkipped ==
    /\ bPc = "checkpoint" /\ config.crac
    /\ started' = Append(started, "checkpoint")
    /\ jarUsed' = [jarUsed EXCEPT !["checkpoint"] = jar_path]
    /\ crac_path' = None
    /\ cracMsg' = CHECKPOINT_SKIPPED
    /\ bPc' = "pack"
    /\ UNCHANGED <<config, jar_path, sizes, shrinkMsg, bRet>>
    /\ rt' = [rt EXCEPT !.written = @ \cup {TEMP_CR, TEMP_CRAC_TAR}]
    /\ UNCHANGED nonBVars

\* main.rs:511: std::fs::metadata(&cp)?
BuildCheckpointStatFails ==
    /\ bPc = "checkpoint" /\ config.crac
    /\ StageFails("checkpoint")

\* main.rs:520-522
BuildNoCheckpoint ==
    /\ bPc = "checkpoint" /\ ~config.crac
    /\ bPc' = "pack"
    /\ UNCHANGED <<config, jar_path, sizes, shrinkMsg, jarUsed, started, crac_path, cracMsg, bRet>>
    /\ UNCHANGED rt
    /\ UNCHANGED nonBVars

\* main.rs:527-547
BuildPack ==
    /\ bPc = "pack"
    /\ started' = Append(started, "pack")
    /\ jarUsed' = [jarUsed EXCEPT !["pack"] = jar_path]
    /\ bRet' = "ok"
    /\ bPc' = "done"
    /\ UNCHANGED <<config, jar_path, sizes, shrinkMsg, crac_path, cracMsg>>
    /\ rt' = [rt EXCEPT !.packed = rt.runtime_path, !.written = @ \cup {OUTPUT}]
    /\ UNCHANGED nonBVars

\* main.rs:538-539
BuildPackFails ==
    /\ bPc = "pack"
    /\ StageFails("pack")

NextBuild ==
    \/ BuildUseJar
    \/ BuildDetect
    \/ BuildDetectFails
    \/ BuildSelectFails
    \/ BuildUberjar
    \/ BuildUberjarFails
    \/ BuildShrink
    \/ BuildShrinkFails
    \/ BuildSkipShrink
    \/ BuildResolveVersion
    \/ BuildResolveVersionFails
    \/ BuildEnsureJdk
    \/ BuildEnsureJdkFails
    \/ BuildTempDir
    \/ BuildTempDirFails
    \/ BuildModulesOverride
    \/ BuildDetectModules
    \/ BuildDetectModulesFails
    \/ BuildReuseRuntime
    \/ BuildCreateRuntime
    \/ BuildCreateRuntimeFails
    \/ BuildCheckpoint
    \/ BuildCheckpointSkipped
    \/ BuildCheckpointStatFails
    \/ BuildNoCheckpoint
    \/ BuildPack
    \/ BuildPackFails

(***************************************************************************)
(* resolve_java_version (validate.rs).  An entry is its kind (a class      *)
(* file, a class file under META-INF/versions/, or anything else) and, for *)
(* a class file, what its first eight bytes hold: too few bytes, no        *)
(* 0xCAFEBABE magic, or the two bytes at offsets 6 and 7.                  *)
(***************************************************************************)
U8 == 256
U16 == 65536

\* validate.rs:59 is `let limit = 200`; the scan limit is scaled down here so
\* that an archive of a few entries can reach it.
limit == 2

\* u16::saturating_sub
saturating_sub(a, b) == IF a >= b THEN a - b ELSE 0

\* `as u8`
as_u8(x) == x % U8

\* validate.rs:111: u16::from_be_bytes([data[6], data[7]])
from_be_bytes(hi, lo) == (hi * 256 + lo) % U16

\* validate.rs:102-113; <<>> stands for None, <<m>> for Some(m)
read_class_major_version(data) ==
    IF ~data.len8 THEN <<>>
    ELSE IF ~data.magic THEN <<>>
    ELSE <<from_be_bytes(data.b6, data.b7)>>

\* validate.rs:87
java_ver_of(major) == as_u8(saturating_sub(major, 44))

\* The headers of the class files of the model: majors 43, 61, 65, 300, 65535,
\* a header without the magic and a file shorter than eight bytes.
ClassHeaders ==
    {[len8 |-> TRUE, magic |-> TRUE, b6 |-> 0, b7 |-> 43],
     [len8 |-> TRUE, magic |-> TRUE, b6 |-> 0, b7 |-> 61],
     [len8 |-> TRUE, magic |-> TRUE, b6 |-> 0, b7 |-> 65],
     [len8 |-> TRUE, magic |-> TRUE, b6 |-> 1, b7 |-> 44],
     [len8 |-> TRUE, magic |-> TRUE, b6 |-> 255, b7 |-> 255],
     [len8 |-> TRUE, magic |-> FALSE, b6 |-> 0, b7 |-> 65],
     [len8 |-> FALSE, magic |-> FALSE, b6 |-> 0, b7 |-> 0]}

NoHeader == [len8 |-> FALSE, magic |-> FALSE, b6 |-> 0, b7 |-> 0]

DOT_CLASS == <<".", "c", "l", "a", "s", "s">>
META_INF_VERSIONS ==
    <<"M", "E", "T", "A", "-", "I", "N", "F", "/", "v", "e", "r", "s", "i", "o", "n", "s", "/">>

\* validate.rs:69-74: the entries the loop goes on to read
IsScannedBroken(name) == ends_with(name, DOT_CLASS)
IsScanned(name) == ends_with(name, DOT_CLASS) /\ ~starts_with(name, META_INF_VERSIONS)

\* The entry names of the model: A.class, META-INF/versions/9/A.class, A.txt.
ClassName == <<"A">> \o DOT_CLASS
VersionedName == META_INF_VERSIONS \o <<"9", "/", "A">> \o DOT_CLASS
OtherName == <<"A", ".", "t", "x", "t">>

\* The multi-release copy of a class has a valid header of major version 66.
VersionedHeader == [len8 |-> TRUE, magic |-> TRUE, b6 |-> 0, b7 |-> 66]

ScanEntries ==
    [name : {ClassName}, data : ClassHeaders]
      \cup {[name |-> VersionedName, data |-> VersionedHeader],
            [name |-> OtherName, data |-> NoHeader]}

ScanArchives == UNION {[1..n -> ScanEntries] : n \in 0..MaxScanEntries}

ConfiguredVersions == {11, 17, 21}

NoReturn ==
    [tag |-> None, value |-> 0, required |-> 0, configured |-> 0, class_version |-> 0,
     class_file |-> 0]

VIdle ==
    /\ vPc = "idle"
    /\ vArchive = <<>>
    /\ vConfigured = 0
    /\ vExplicit = FALSE
    /\ vIdx = 0
    /\ checked = 0
    /\ max = <<>>
    /\ vRet = NoReturn

VInit ==
    /\ vPc = "open"
    /\ vArchive \in ScanArchives
    /\ vConfigured \in ConfiguredVersions
    /\ vExplicit \in BOOLEAN
    /\ vIdx = 0
    /\ checked = 0
    /\ max = <<>>
    /\ vRet = NoReturn

\* validate.rs:54-59
ValidateOpen ==
    /\ vPc = "open"
    /\ vIdx' = 1
    /\ checked' = 0
    /\ max' = <<>>
    /\ vPc' = "scan"
    /\ UNCHANGED <<vArchive, vConfigured, vExplicit, vRet>>
    /\ UNCHANGED nonVVars

\* validate.rs:54-55 and 20: File::open(..)? / ZipArchive::new(..)?
ValidateOpenFails ==
    /\ vPc = "open"
    /\ vRet' = [NoReturn EXCEPT !.tag = "io"]
    /\ vPc' = "done"
    /\ UNCHANGED <<vArchive, vConfigured, vExplicit, vIdx, checked, max>>
    /\ UNCHANGED nonVVars

\* validate.rs:89-96
UpdateMax(m, major, name) ==
    LET dominated == m # <<>> /\ m[1].major_version >= major
    IN  IF ~dominated
        THEN <<[major_version |-> major, java_version |-> java_ver_of(major),
                class_file |-> name]>>
        ELSE m

\* validate.rs:61-97: one iteration of the loop
ValidateScanEntry ==
    /\ vPc = "scan"
    /\ vIdx <= Len(vArchive)
    /\ checked < limit
    /\ LET entry == vArchive[vIdx]
           major == read_class_major_version(entry.data)
       IN  IF ~IsScanned(entry.name)
           THEN UNCHANGED <<checked, max>>
           ELSE /\ checked' = checked + 1
                /\ max' = IF major = <<>> THEN max ELSE UpdateMax(max, major[1], vIdx)
    /\ vIdx' = vIdx + 1
    /\ UNCHANGED <<vPc, vArchive, vConfigured, vExplicit, vRet>>
    /\ UNCHANGED nonVVars

\* validate.rs:66: archive.by_index(i)?
ValidateScanFails ==
    /\ vPc = "scan"
    /\ vIdx <= Len(vArchive)
    /\ checked < limit
    /\ vRet' = [NoReturn EXCEPT !.tag = "io"]
    /\ vPc' = "done"
    /\ UNCHANGED <<vArchive, vConfigured, vExplicit, vIdx, checked, max>>
    /\ UNCHANGED nonVVars

\* validate.rs:61-64, 99: the loop ends
ValidateScanEnd ==
    /\ vPc = "scan"
    /\ (vIdx > Len(vArchive) \/ checked >= limit)
    /\ vPc' = "resolve"
    /\ UNCHANGED <<vArchive, vConfigured, vExplicit, vIdx, checked, max, vRet>>
    /\ UNCHANGED nonVVars

\* validate.rs:22-50
Resolve(info, configured, explicit) ==
    IF info = <<>> THEN [NoReturn EXCEPT !.tag = "ok", !.value = configured]
    ELSE IF info[1].java_version <= configured
         THEN [NoReturn EXCEPT !.tag = "ok", !.value = configured]
    ELSE IF explicit
         THEN [tag |-> "mismatch", value |-> 0, required |-> info[1].java_version,
               configured |-> configured, class_version |-> info[1].major_version,
               class_file |-> info[1].class_file]
    ELSE [NoReturn EXCEPT !.tag = "ok", !.value = info[1].java_version]

ValidateResolve ==
    /\ vPc = "resolve"
    /\ vRet' = Resolve(max, vConfigured, vExplicit)
    /\ vPc' = "done"
    /\ UNCHANGED <<vArchive, vConfigured, vExplicit, vIdx, checked, max>>
    /\ UNCHANGED nonVVars

NextValidate ==
    \/ ValidateOpen
    \/ ValidateOpenFails
    \/ ValidateScanEntry
    \/ ValidateScanFails
    \/ ValidateScanEnd
    \/ ValidateResolve

(***************************************************************************)
(* The lock wait of ensure_jdk (jvm/mod.rs:39-60) with its clock, for one  *)
(* call.  The other processes are the environment: they take and release   *)
(* the flock at any time.  try_lock_exclusive takes no time; a sleep lasts *)
(* the interval asked for or whole intervals longer.                       *)
(***************************************************************************)
LOCK_TIMEOUT == 600          \* seconds
LOCK_POLL_INTERVAL == 500    \* milliseconds

LockTimeoutMs == LOCK_TIMEOUT * 1000

\* mod.rs:45
TimedOut(elapsed) == elapsed >= LockTimeoutMs

\* mod.rs:51
ShouldWarnBroken(w) == TRUE
ShouldWarn(w) == ~w

LwIdle ==
    /\ lwPc = "idle"
    /\ now = 0
    /\ lastPoll = -1
    /\ lwBusy = FALSE
    /\ lwWarned = FALSE
    /\ warnings = 0
    /\ lwPerformed = FALSE
    /\ lwRet = None

\* mod.rs:39-40: start = Instant::now(), warned = false
LwInit ==
    /\ lwPc = "poll"
    /\ now = 0
    /\ lastPoll = -1
    /\ lwBusy \in BOOLEAN
    /\ lwWarned = FALSE
    /\ warnings = 0
    /\ lwPerformed = FALSE
    /\ lwRet = None

\* mod.rs:42-43
LwPollAcquires ==
    /\ lwPc = "poll"
    /\ ~lwBusy
    /\ lastPoll' = now
    /\ lwPc' = "locked"
    /\ UNCHANGED <<now, lwBusy, lwWarned, warnings, lwPerformed, lwRet>>
    /\ UNCHANGED nonLwVars

\* mod.rs:44-50
LwPollTimesOut ==
    /\ lwPc = "poll"
    /\ lwBusy
    /\ TimedOut(now)
    /\ lastPoll' = now
    /\ lwRet' = "CacheLockTimeout"
    /\ lwPc' = "done"
    /\ UNCHANGED <<now, lwBusy, lwWarned, warnings, lwPerformed>>
    /\ UNCHANGED nonLwVars

\* mod.rs:44-57: warn the first time, then sleep
LwPollBusy ==
    /\ lwPc = "poll"
    /\ lwBusy
    /\ ~TimedOut(now)
    /\ lastPoll' = now
    /\ warnings' = IF ShouldWarn(lwWarned) THEN warnings + 1 ELSE warnings
    /\ lwWarned' = TRUE
    /\ lwPc' = "sleep"
    /\ UNCHANGED <<now, lwBusy, lwPerformed, lwRet>>
    /\ UNCHANGED nonLwVars

\* mod.rs:57: std::thread::sleep(LOCK_POLL_INTERVAL) returns
LwWake ==
    /\ lwPc = "sleep"
    /\ \E over \in 0..MaxOversleep : now' = now + LOCK_POLL_INTERVAL * (1 + over)
    /\ lwPc' = "poll"
    /\ UNCHANGED <<lastPoll, lwBusy, lwWarned, warnings, lwPerformed, lwRet>>
    /\ UNCHANGED nonLwVars

\* mod.rs:63-78: the call goes on under the lock
LwEnterBlock ==
    /\ lwPc = "locked"
    /\ lwPerformed' = TRUE
    /\ lwRet' = "path"
    /\ lwPc' = "done"
    /\ UNCHANGED <<now, lastPoll, lwBusy, lwWarned, warnings>>
    /\ UNCHANGED nonLwVars

\* Another process releases the flock.
LwOtherReleases ==
    /\ lwPc \in {"poll", "sleep"}
    /\ lwBusy
    /\ lwBusy' = FALSE
    /\ UNCHANGED <<lwPc, now, lastPoll, lwWarned, warnings, lwPerformed, lwRet>>
    /\ UNCHANGED nonLwVars

\* Another process takes the flock.
LwOtherAcquires ==
    /\ lwPc \in {"poll", "sleep"}
    /\ ~lwBusy
    /\ lwBusy' = TRUE
    /\ UNCHANGED <<lwPc, now, lastPoll, lwWarned, warnings, lwPerformed, lwRet>>
    /\ UNCHANGED nonLwVars

NextLockWait ==
    \/ LwPollAcquires
    \/ LwPollTimesOut
    \/ LwPollBusy
    \/ LwWake
    \/ LwEnterBlock
    \/ LwOtherReleases
    \/ LwOtherAcquires

(***************************************************************************)
(* The launcher script: pack/stub.rs, the text generate() emits.  One run   *)
(* of the script under `set -e`: extract the runtime and the application   *)
(* unless cached, try the CRaC restore on Linux when a checkpoint is        *)
(* embedded, then launch `java ... -jar app.jar`.                           *)
(* `exec prog` replaces the shell process by prog when prog can be run: no  *)
(* later line of the script runs, whatever prog's exit status.  When prog   *)
(* cannot be run, a non-interactive shell exits (POSIX sh, dash, bash) or,  *)
(* where the shell returns from a failed exec, goes on with the list.       *)
(***************************************************************************)
Hosts == {"Linux", "Darwin"}

CacheDirs == {"rt", "app", "crac"}

CracSizes == {n * PayloadUnit : n \in 0..MaxPayload}

JAVA_RESTORED == "java: restored"
JAVA_RESTORE_FAILED == "java: restore failed, non-zero exit"
JAVA_APP == "java: -jar app.jar"
SHELL_ERREXIT == "sh: set -e"
SHELL_EXEC_FAILED == "sh: exec failed"
SHELL_EXIT_0 == "sh: exit 0"

LnIdle ==
    /\ lnPc = "idle"
    /\ host = "Linux"
    /\ cracSize = 0
    /\ cached = [d \in CacheDirs |-> FALSE]
    /\ restoreTried = FALSE
    /\ restoreFailed = FALSE
    /\ normalLaunch = FALSE
    /\ lnExit = None

LnInit ==
    /\ lnPc = "runtime"
    /\ host \in Hosts
    /\ cracSize \in CracSizes
    /\ cached \in [CacheDirs -> BOOLEAN]
    /\ restoreTried = FALSE
    /\ restoreFailed = FALSE
    /\ normalLaunch = FALSE
    /\ lnExit = None

\* `set -e`: a failing command that is not part of a tested list ends the shell.
Errexit ==
    /\ lnPc' = "done"
    /\ lnExit' = SHELL_ERREXIT

\* if [ ! -d "$RT_DIR/bin" ]; then mkdir; tail | head | tar xzf; fi
LaunchExtractRuntime ==
    /\ lnPc = "runtime"
    /\ cached' = [cached EXCEPT !["rt"] = TRUE]
    /\ lnPc' = "app"
    /\ UNCHANGED <<host, cracSize, restoreTried, restoreFailed, normalLaunch, lnExit>>
    /\ UNCHANGED nonLnVars

LaunchExtractRuntimeFails ==
    /\ lnPc = "runtime"
    /\ ~cached["rt"]
    /\ Errexit
    /\ UNCHANGED <<host, cracSize, cached, restoreTried, restoreFailed, normalLaunch>>
    /\ UNCHANGED nonLnVars

\* if [ ! -f "$APP_DIR/app.jar" ]; then mkdir; tail | head | gzip -d; fi
LaunchExtractApp ==
    /\ lnPc = "app"
    /\ cached' = [cached EXCEPT !["app"] = TRUE]
    /\ lnPc' = "crac_test"
    /\ UNCHANGED <<host, cracSize, restoreTried, restoreFailed, normalLaunch, lnExit>>
    /\ UNCHANGED nonLnVars

LaunchExtractAppFails ==
    /\ lnPc = "app"
    /\ ~cached["app"]
    /\ Errexit
    /\ UNCHANGED <<host, cracSize, cached, restoreTried, restoreFailed, normalLaunch>>
    /\ UNCHANGED nonLnVars

\* [ "$CRAC_SIZE" -gt 0 ] 2>/dev/null && [ "$(uname)" = "Linux" ]
CracBranchTaken == cracSize > 0 /\ host = "Linux"

LaunchCracTest ==
    /\ lnPc = "crac_test"
    /\ lnPc' = IF CracBranchTaken THEN "crac_extract" ELSE "launch"
    /\ UNCHANGED <<host, cracSize, cached, restoreTried, restoreFailed, normalLaunch, lnExit>>
    /\ UNCHANGED nonLnVars

\* if [ ! -d "$CRAC_DIR/cr" ]; then mkdir; tail | head | tar xzf; fi
LaunchExtractCrac ==
    /\ lnPc = "crac_extract"
    /\ cached' = [cached EXCEPT !["crac"] = TRUE]
    /\ lnPc' = "restore"
    /\ UNCHANGED <<host, cracSize, restoreTried, restoreFailed, normalLaunch, lnExit>>
    /\ UNCHANGED nonLnVars

LaunchExtractCracFails ==
    /\ lnPc = "crac_extract"
    /\ ~cached["crac"]
    /\ Errexit
    /\ UNCHANGED <<host, cracSize, cached, restoreTried, restoreFailed, normalLaunch>>
    /\ UNCHANGED nonLnVars

\* exec "$RT_DIR/bin/java" -XX:CRaCRestoreFrom="$CRAC_DIR/cr" "$@" 2>/dev/null || true
\* java could be run: it has replaced the shell, and its exit ends the process.
LaunchRestoreRuns ==
    /\ lnPc = "restore"
    /\ \E restored \in BOOLEAN :
        /\ restoreFailed' = ~restored
        /\ lnExit' = IF restored THEN JAVA_RESTORED ELSE JAVA_RESTORE_FAILED
    /\ restoreTried' = TRUE
    /\ lnPc' = "done"
    /\ UNCHANGED <<host, cracSize, cached, normalLaunch>>
    /\ UNCHANGED nonLnVars

\* java could not be run: the shell exits, or returns from exec into `|| true`.
LaunchRestoreExecFails ==
    /\ lnPc = "restore"
    /\ restoreTried' = TRUE
    /\ restoreFailed' = TRUE
    /\ \/ lnPc' = "done" /\ lnExit' = SHELL_EXEC_FAILED
       \/ lnPc' = "launch" /\ lnExit' = lnExit
    /\ UNCHANGED <<host, cracSize, cached, normalLaunch>>
    /\ UNCHANGED nonLnVars

\* exec "$RT_DIR/bin/java"{profile_and_args} $CDS_FLAG -jar "$APP_DIR/app.jar" "$@"
LaunchNormalRuns ==
    /\ lnPc = "launch"
    /\ normalLaunch' = TRUE
    /\ lnPc' = "done"
    /\ lnExit' = JAVA_APP
    /\ UNCHANGED <<host, cracSize, cached, restoreTried, restoreFailed>>
    /\ UNCHANGED nonLnVars

\* the exec fails under `set -e`: the shell exits, or goes on to `exit 0`.
LaunchNormalExecFails ==
    /\ lnPc = "launch"
    /\ normalLaunch' = TRUE
    /\ lnPc' = "done"
    /\ lnExit' \in {SHELL_EXEC_FAILED, SHELL_ERREXIT, SHELL_EXIT_0}
    /\ UNCHANGED <<host, cracSize, cached, restoreTried, restoreFailed>>
    /\ UNCHANGED nonLnVars

NextLaunch ==
    \/ LaunchExtractRuntime
    \/ LaunchExtractRuntimeFails
    \/ LaunchExtractApp
    \/ LaunchExtractAppFails
    \/ LaunchCracTest
    \/ LaunchExtractCrac
    \/ LaunchExtractCracFails
    \/ LaunchRestoreRuns
    \/ LaunchRestoreExecFails
    \/ LaunchNormalRuns
    \/ LaunchNormalExecFails

(***************************************************************************)
(* Module detection: jlink.rs detect_modules and the step of run_build that *)
(* calls it (main.rs:465-492).  A string is a sequence of pieces, each a    *)
(* module name, a comma or a whitespace character; a Vec<String> is a       *)
(* sequence of strings.                                                     *)
(***************************************************************************)
MaxStdout == 2

MaxAddModules == 2

MaxDrain == 3

MaxStatus == 2

DetectedNames == {"java.base", "java.sql"}

Whitespace == {" ", "\n"}

Comma == ","

ExitStatuses == 0..MaxStatus

\* str::trim: drop the whitespace at both ends.
RECURSIVE trim_start(_)
trim_start(text) ==
    IF text # <<>> /\ Head(text) \in Whitespace THEN trim_start(Tail(text)) ELSE text

RECURSIVE trim_end(_)
trim_end(text) ==
    IF text # <<>> /\ text[Len(text)] \in Whitespace
    THEN trim_end(SubSeq(text, 1, Len(text) - 1))
    ELSE text

trim(text) == trim_end(trim_start(text))

\* jlink.rs:34, the list returned when jdeps exits non-zero.
CommonModules ==
    <<"java.base", ",", "java.logging", ",", "java.sql", ",", "java.naming", ",",
      "java.management", ",", "java.instrument", ",", "java.desktop", ",", "java.xml", ",",
      "java.net.http">>

\* jlink.rs:39, the list returned when jdeps prints nothing.
EmptyOutputModules == <<"java.base">>

INVALID_UTF8 == "JAR path contains invalid UTF-8"
FAILED_TO_RUN == "failed to run jdeps"

NotRun == [ran |-> FALSE, status |-> 0, stdout |-> <<>>]

NoModules == [tag |-> None, value |-> <<>>, message |-> None]

OkModules(list) == [tag |-> "ok", value |-> list, message |-> None]

JdepsFailed(message) == [tag |-> "err", value |-> <<>>, message |-> message]

\* status.success()
success(status) == status = 0

\* jlink.rs:30-42: the return value once jdeps has run.
ModulesFromOutput(out) ==
    IF ~success(out.status) THEN OkModules(CommonModules)
    ELSE IF trim(out.stdout) = <<>> THEN OkModules(EmptyOutputModules)
    ELSE OkModules(trim(out.stdout))

\* [String]::join(","): the strings with a comma between neighbours.
RECURSIVE join(_)
join(list) ==
    IF list = <<>> THEN <<>>
    ELSE IF Len(list) = 1 THEN list[1]
    ELSE list[1] \o <<Comma>> \o join(Tail(list))

\* str::split(','): the fields between the commas; one empty field for "".
RECURSIVE split(_)
split(str) ==
    IF \A i \in 1..Len(str) : str[i] # Comma THEN <<str>>
    ELSE LET i == CHOOSE k \in 1..Len(str) :
                      str[k] = Comma /\ \A h \in 1..(k - 1) : str[h] # Comma
         IN  <<SubSeq(str, 1, i - 1)>> \o split(SubSeq(str, i + 1, Len(str)))

\* What jdeps may print: any text of up to MaxStdout names and whitespace
\* characters, and the comma-separated lists of up to MaxStdout names, with or
\* without the newline that ends the line.
StdoutTexts ==
    UNION {[1..n -> DetectedNames \cup Whitespace] : n \in 0..MaxStdout}
      \cup {join(list) \o nl :
               list \in UNION {[1..n -> {<<name>> : name \in DetectedNames}] : n \in 1..MaxStdout},
               nl \in {<<>>, <<"\n">>}}

RECURSIVE SetToSeq(_)
SetToSeq(set) ==
    IF set = {} THEN <<>>
    ELSE LET x == CHOOSE x \in set : TRUE IN <<x>> \o SetToSeq(set \ {x})

\* The orders in which HashSet::drain may yield the elements of a set: the order
\* depends on the hasher's random state.  Every order is taken for a set of up
\* to MaxDrain elements, the rotations of one order for a larger set.
DrainOrders(set) ==
    LET n == Cardinality(set)
        one == SetToSeq(set)
    IN  IF n <= MaxDrain
        THEN {ord \in [1..n -> set] : \A i, j \in 1..n : ord[i] = ord[j] => i = j}
        ELSE {[i \in 1..n |-> one[((i + k - 1) % n) + 1]] : k \in 0..(n - 1)}

\* main.rs:478-484: the jdeps list with the Gradle modules appended.
WithGradleModulesBroken(list, detected) == list
WithGradleModules(list, detected) ==
    (IF list # <<>> THEN list \o <<Comma>> ELSE list) \o join(detected)

\* config.modules_override: None, or Some of a list of module names.
NoOverride == <<>>
OverrideNames == {<<"java.base">>, <<"java.sql">>}
Overrides ==
    {NoOverride} \cup {<<list>> : list \in UNION {[1..n -> OverrideNames] : n \in 0..MaxAddModules}}

\* detected_modules: the add_modules of the selected Gradle sub-project, empty
\* for a jar input and for a simple project.
GradleNames == {<<"java.sql">>, <<"java.desktop">>}
GradleModuleLists == UNION {[1..n -> GradleNames] : n \in 0..MaxAddModules}

MdIdle ==
    /\ mdPc = "idle"
    /\ jar_str_ok = TRUE
    /\ output = NotRun
    /\ mdRet = NoModules
    /\ modules = <<>>
    /\ modules_override = NoOverride
    /\ detected_modules = <<>>

\* main.rs:465: run_build has reached the modules step.
MdInit ==
    /\ mdPc = "step"
    /\ jar_str_ok \in BOOLEAN
    /\ output = NotRun
    /\ mdRet = NoModules
    /\ modules = <<>>
    /\ modules_override \in Overrides
    /\ detected_modules \in GradleModuleLists

\* main.rs:466-471: the manual override is joined; detect_modules is not called.
StepOverride ==
    /\ mdPc = "step" /\ modules_override # NoOverride
    /\ modules' = join(modules_override[1])
    /\ mdPc' = "continued"
    /\ UNCHANGED <<jar_str_ok, output, mdRet, modules_override, detected_modules>>
    /\ UNCHANGED nonMdVars

\* main.rs:472-475: no manual override, the step starts and calls detect_modules.
StepDetect ==
    /\ mdPc = "step" /\ modules_override = NoOverride
    /\ mdPc' = "to_str"
    /\ UNCHANGED <<jar_str_ok, output, mdRet, modules, modules_override, detected_modules>>
    /\ UNCHANGED nonMdVars

\* jlink.rs:10-12
DetectInvalidPath ==
    /\ mdPc = "to_str" /\ ~jar_str_ok
    /\ mdRet' = JdepsFailed(INVALID_UTF8)
    /\ mdPc' = "returned"
    /\ UNCHANGED <<jar_str_ok, output, modules, modules_override, detected_modules>>
    /\ UNCHANGED nonMdVars

\* jlink.rs:10-23
DetectBuildCommand ==
    /\ mdPc = "to_str" /\ jar_str_ok
    /\ mdPc' = "spawn"
    /\ UNCHANGED <<jar_str_ok, output, mdRet, modules, modules_override, detected_modules>>
    /\ UNCHANGED nonMdVars

\* jlink.rs:25-28: the process cannot be started or waited for.
DetectSpawnFails ==
    /\ mdPc = "spawn"
    /\ mdRet' = JdepsFailed(FAILED_TO_RUN)
    /\ mdPc' = "returned"
    /\ UNCHANGED <<jar_str_ok, output, modules, modules_override, detected_modules>>
    /\ UNCHANGED nonMdVars

\* jlink.rs:25-28: jdeps ran to its end.
DetectRun ==
    /\ mdPc = "spawn"
    /\ \E status \in ExitStatuses, stdout \in StdoutTexts :
        output' = [ran |-> TRUE, status |-> status, stdout |-> stdout]
    /\ mdPc' = "exited"
    /\ UNCHANGED <<jar_str_ok, mdRet, modules, modules_override, detected_modules>>
    /\ UNCHANGED nonMdVars

\* jlink.rs:30-42
DetectReturn ==
    /\ mdPc = "exited"
    /\ mdRet' = ModulesFromOutput(output)
    /\ mdPc' = "returned"
    /\ UNCHANGED <<jar_str_ok, output, modules, modules_override, detected_modules>>
    /\ UNCHANGED nonMdVars

\* main.rs:475-491, `?` on Ok: the Gradle modules, if any, are appended and the
\* list is deduplicated through a HashSet; the pipeline goes on with the list.
StepContinues ==
    /\ mdPc = "returned" /\ mdRet.tag = "ok"
    /\ IF detected_modules = <<>>
       THEN modules' = mdRet.value
       ELSE LET all == WithGradleModules(mdRet.value, detected_modules)
                fields == split(all)
                module_set == {fields[i] : i \in 1..Len(fields)}
            IN  \E ord \in DrainOrders(module_set) : modules' = join(ord)
    /\ mdPc' = "continued"
    /\ UNCHANGED <<jar_str_ok, output, mdRet, modules_override, detected_modules>>
    /\ UNCHANGED nonMdVars

\* main.rs:475, `?` on Err: run_build returns the error.
StepAborts ==
    /\ mdPc = "returned" /\ mdRet.tag = "err"
    /\ mdPc' = "aborted"
    /\ UNCHANGED <<jar_str_ok, output, mdRet, modules, modules_override, detected_modules>>
    /\ UNCHANGED nonMdVars

NextModules ==
    \/ StepOverride
    \/ StepDetect
    \/ DetectInvalidPath
    \/ DetectBuildCommand
    \/ DetectSpawnFails
    \/ DetectRun
    \/ DetectReturn
    \/ StepContinues
    \/ StepAborts

(***************************************************************************)
(* The build command of main (main.rs:52-200): the options of the command   *)
(* line and of jbundle.toml are merged, one `let` after the other, into a   *)
(* BuildConfig, and run_build is called.  Every value is written as the     *)
(* text of the option; None is an Option that is None.                      *)
(***************************************************************************)
Unset == "unset"

OptionOrder ==
    <<"target", "java_version", "jvm_args", "shrink", "profile", "appcds", "crac",
      "compact_banner", "gradle_project", "modules", "jlink_runtime">>

Options == {OptionOrder[i] : i \in 1..Len(OptionOrder)}

\* The position after option opt.
NextOption(opt) ==
    LET i == CHOOSE j \in 1..Len(OptionOrder) : OptionOrder[j] = opt
    IN  IF i = Len(OptionOrder) THEN "run_build" ELSE OptionOrder[i + 1]

\* What clap binds for an option that is absent from the command line
\* (cli.rs:19-79): None, false, or the empty list.
CliAbsent(opt) ==
    CASE opt \in {"shrink", "crac", "compact_banner", "appcds"} -> "false"
      [] opt = "jvm_args" -> "[]"
      [] OTHER -> None

\* The values an option may be given, on the command line or in the file.
OptionValues(opt) ==
    CASE opt = "target" -> {"linux-x64", "macos-aarch64", "windows-x64"}
      [] opt = "java_version" -> {"17", "21"}
      [] opt = "jvm_args" -> {"[-Xmx512m]", "[-XX:+UseZGC]"}
      [] opt = "profile" -> {"cli", "server", "fast"}
      [] opt = "gradle_project" -> {":app", ":cli"}
      [] opt = "modules" -> {"[java.base]", "[java.base,java.sql]"}
      [] opt = "jlink_runtime" -> {"./runtime", "/opt/rt"}
      [] OTHER -> {"true", "false"}

\* The command lines for one option: absent, or one that gives it a value.
\* --crac and --compact-banner take no value and give true; --no-appcds
\* gives appcds the value false; --shrink takes an optional value
\* (cli.rs:41: num_args = 0..=1, default_missing_value = "true").
CmdLines(opt) ==
    {[given |-> FALSE, value |-> CliAbsent(opt)]}
    \cup {[given |-> TRUE, value |-> v] :
            v \in CASE opt \in {"crac", "compact_banner"} -> {"true"}
                    [] opt = "appcds" -> {"false"}
                    [] OTHER -> OptionValues(opt)}

\* What jbundle.toml holds for one option.
FileValues(opt) == IF hasFile THEN OptionValues(opt) \cup {None} ELSE {None}

\* Option::or, Option::unwrap_or
or(a, b) == IF a # None THEN a ELSE b

unwrap_or(a, default) == IF a # None THEN a ELSE default

\* bool ||
Or(a, b) == IF a = "true" \/ b = "true" THEN "true" ELSE "false"

\* config.rs:127-147
Target_from_strBroken(str) == str

Target_from_str(str) ==
    IF str \in {"linux-x64", "linux-aarch64", "macos-x64", "macos-aarch64"}
    THEN str ELSE None

\* config.rs:33-39, Err as None
JvmProfile_from_str(str) == IF str \in {"cli", "server"} THEN str ELSE None

\* main.rs:81-162: the value main binds for each option.
Merged(opt, c, f) ==
    CASE opt = "target" ->
            IF or(c.value, f) = None THEN "current" ELSE Target_from_str(or(c.value, f))
      [] opt = "java_version" -> unwrap_or(or(c.value, f), "21")
      [] opt = "jvm_args" -> IF c.value = "[]" THEN unwrap_or(f, "[]") ELSE c.value
      [] opt = "shrink" -> Or(c.value, unwrap_or(f, "false"))
      [] opt = "profile" -> JvmProfile_from_str(unwrap_or(or(c.value, f), "server"))
      [] opt = "appcds" -> IF c.given THEN "false" ELSE unwrap_or(f, "true")
      [] opt = "crac" -> Or(c.value, unwrap_or(f, "false"))
      [] opt = "compact_banner" -> Or(c.value, unwrap_or(f, "false"))
      [] OTHER -> or(c.value, f)

INVALID_TARGET == "invalid target"
INVALID_PROFILE == "invalid profile"
INVALID_FILE == "invalid jbundle.toml"

NoOption == [opt |-> None, cli |-> [given |-> FALSE, value |-> None], file |-> None]

CfIdle ==
    /\ cfPc = "idle"
    /\ hasFile = FALSE
    /\ cur = NoOption
    /\ buildConfig = [o \in Options |-> Unset]
    /\ cfRet = None
    /\ pipelineStarted = FALSE

\* main.rs:70-77: the command line is parsed and the project directory found.
CfInit ==
    /\ cfPc = "load"
    /\ hasFile \in BOOLEAN
    /\ cur = NoOption
    /\ buildConfig = [o \in Options |-> Unset]
    /\ cfRet = None
    /\ pipelineStarted = FALSE

\* main.rs:79
LoadProjectConfig ==
    /\ cfPc = "load"
    /\ cfPc' = OptionOrder[1]
    /\ UNCHANGED <<hasFile, cur, buildConfig, cfRet, pipelineStarted>>
    /\ UNCHANGED nonCfVars

\* main.rs:79, project_config.rs:27-29: the file cannot be read or parsed.
LoadProjectConfigFails ==
    /\ cfPc = "load" /\ hasFile
    /\ cfPc' = "aborted"
    /\ cfRet' = INVALID_FILE
    /\ UNCHANGED <<hasFile, cur, buildConfig, pipelineStarted>>
    /\ UNCHANGED nonCfVars

\* main.rs:81-162: one `let`, for an option whose merge cannot fail or does not.
ResolveOption ==
    /\ cfPc \in Options
    /\ \E c \in CmdLines(cfPc), f \in FileValues(cfPc) :
        /\ Merged(cfPc, c, f) # None \/ cfPc \notin {"target", "profile"}
        /\ cur' = [opt |-> cfPc, cli |-> c, file |-> f]
        /\ buildConfig' = [buildConfig EXCEPT ![cfPc] = Merged(cfPc, c, f)]
    /\ cfPc' = NextOption(cfPc)
    /\ UNCHANGED <<hasFile, cfRet, pipelineStarted>>
    /\ UNCHANGED nonCfVars

\* main.rs:82-88, 120-121: from_str fails and `?` returns the error.
ResolveOptionFails ==
    /\ cfPc \in {"target", "profile"}
    /\ \E c \in CmdLines(cfPc), f \in FileValues(cfPc) :
        /\ Merged(cfPc, c, f) = None
        /\ cur' = [opt |-> cfPc, cli |-> c, file |-> f]
    /\ cfRet' = IF cfPc = "target" THEN INVALID_TARGET ELSE INVALID_PROFILE
    /\ cfPc' = "aborted"
    /\ UNCHANGED <<hasFile, buildConfig, pipelineStarted>>
    /\ UNCHANGED nonCfVars

\* main.rs:177-199: BuildConfig is built and run_build (or run_build_all) called.
CallRunBuild ==
    /\ cfPc = "run_build"
    /\ pipelineStarted' = TRUE
    /\ cfPc' = "pipeline"
    /\ UNCHANGED <<hasFile, cur, buildConfig, cfRet>>
    /\ UNCHANGED nonCfVars

NextConfig ==
    \/ LoadProjectConfig
    \/ LoadProjectConfigFails
    \/ ResolveOption
    \/ ResolveOptionFails
    \/ CallRunBuild

(***************************************************************************)
(* analyze_jar (analyze/mod.rs) and classify_entry (analyze/classify.rs):   *)
(* the pass over the entries that collects the duplicate classes and the    *)
(* large resources, and the issues of the report.                           *)
(***************************************************************************)
MaxAnEntries == 2

LARGE_RESOURCE_THRESHOLD == 1048576

\* classify.rs:11-32
classify_entry(name) ==
    IF ends_with(name, <<".", "c", "l", "a", "s", "s">>) THEN "Class"
    ELSE IF ends_with(name, <<".", "c", "l", "j">>) \/ ends_with(name, <<".", "c", "l", "j", "c">>) \/ ends_with(name, <<".", "c", "l", "j", "s">>)
    THEN "ClojureSource"
    ELSE IF ends_with(name, <<".", "j", "a", "v", "a">>) THEN "JavaSource"
    ELSE IF ends_with(name, <<".", "s", "o">>) \/ ends_with(name, <<".", "d", "y", "l", "i", "b">>)
            \/ ends_with(name, <<".", "d", "l", "l">>) \/ ends_with(name, <<".", "j", "n", "i", "l", "i", "b">>)
    THEN "NativeLib"
    ELSE IF starts_with(name, META_INF) THEN "Metadata"
    ELSE "Resource"

\* mod.rs:102
IsLargeResourceBroken(category, size) ==
    category = "Resource" /\ size > LARGE_RESOURCE_THRESHOLD

IsLargeResource(category, size) ==
    category = "Resource" /\ size >= LARGE_RESOURCE_THRESHOLD

\* The entry names of an analysed archive: a resource (that of the test
\* analyze_detects_large_resources), a native library, a class, a resource
\* under META-INF/ and a directory.
AnNames ==
    {<<"d", "a", "t", "a", "/", "m", "o", "d", "e", "l", ".", "b", "i", "n">>,
     <<"l", "i", "b", "/", "l", "i", "b", "n", "e", "t", ".", "s", "o">>,
     <<"c", "o", "m", "/", "A", "p", "p", ".", "c", "l", "a", "s", "s">>,
     <<"M", "E", "T", "A", "-", "I", "N", "F", "/", "b", "i", "g", ".", "b", "i", "n">>,
     <<"d", "a", "t", "a", "/">>}

AnSizes == {11, LARGE_RESOURCE_THRESHOLD - 1, LARGE_RESOURCE_THRESHOLD, 2 * LARGE_RESOURCE_THRESHOLD}

AnEntries ==
    {[name |-> n, size |-> z] : n \in {m \in AnNames : ~is_dir(m)}, z \in AnSizes}
    \cup {[name |-> n, size |-> 0] : n \in {m \in AnNames : is_dir(m)}}

AnJars == UNION {[1..n -> AnEntries] : n \in 0..MaxAnEntries}

\* mod.rs:140-152: the duplicate classes, sorted by message, then the large
\* resources in archive order.
DuplicateIssues(occurrences) ==
    LET dups == {n \in DOMAIN occurrences : occurrences[n] > 1}
    IN  IF dups = {} THEN <<>>
        ELSE LET n == CHOOSE m \in dups : TRUE
             IN  <<[kind |-> "Duplicate class", name |-> n, n |-> occurrences[n]]>>

LargeIssues(large) ==
    [i \in 1..Len(large) |-> [kind |-> "Large resource", name |-> large[i][1], n |-> large[i][2]]]

AnIdle ==
    /\ anPc = "idle"
    /\ anJar = <<>>
    /\ anIdx = 0
    /\ class_occurrences = [n \in {m \in AnNames : classify_entry(m) = "Class"} |-> 0]
    /\ large_resources = <<>>
    /\ issues = <<>>
    /\ anRet = None

AnInit ==
    /\ anPc = "open"
    /\ anJar \in AnJars
    /\ anIdx = 0
    /\ class_occurrences = [n \in {m \in AnNames : classify_entry(m) = "Class"} |-> 0]
    /\ large_resources = <<>>
    /\ issues = <<>>
    /\ anRet = None

\* mod.rs:47-65
AnalyzeOpen ==
    /\ anPc = "open"
    /\ anPc' = "loop"
    /\ anIdx' = 1
    /\ UNCHANGED <<anJar, class_occurrences, large_resources, issues, anRet>>
    /\ UNCHANGED nonAnVars

\* mod.rs:47-54, 68-70: the archive or an entry cannot be read.
AnalyzeFails ==
    /\ anPc \in {"open", "loop"}
    /\ anPc = "loop" => anIdx <= Len(anJar)
    /\ anPc' = "failed"
    /\ anRet' = "AnalyzeFailed"
    /\ UNCHANGED <<anJar, anIdx, class_occurrences, large_resources, issues>>
    /\ UNCHANGED nonAnVars

\* mod.rs:67-115: one iteration of the loop.
AnalyzeEntry ==
    /\ anPc = "loop" /\ anIdx <= Len(anJar)
    /\ LET entry == anJar[anIdx]
           category == classify_entry(entry.name)
       IN  IF is_dir(entry.name)
           THEN UNCHANGED <<class_occurrences, large_resources>>
           ELSE /\ class_occurrences' =
                      IF category = "Class"
                      THEN [class_occurrences EXCEPT ![entry.name] = @ + 1]
                      ELSE class_occurrences
                /\ large_resources' =
                      IF IsLargeResource(category, entry.size)
                      THEN Append(large_resources, <<entry.name, entry.size>>)
                      ELSE large_resources
    /\ anIdx' = anIdx + 1
    /\ UNCHANGED <<anPc, anJar, issues, anRet>>
    /\ UNCHANGED nonAnVars

\* mod.rs:117-167: the report.
AnalyzeReport ==
    /\ anPc = "loop" /\ anIdx > Len(anJar)
    /\ issues' = DuplicateIssues(class_occurrences) \o LargeIssues(large_resources)
    /\ anPc' = "done"
    /\ anRet' = "Ok"
    /\ UNCHANGED <<anJar, anIdx, class_occurrences, large_resources>>
    /\ UNCHANGED nonAnVars

NextAnalyze ==
    \/ AnalyzeOpen
    \/ AnalyzeFails
    \/ AnalyzeEntry
    \/ AnalyzeReport

(***************************************************************************)
(* hash_file (pack/archive.rs) called on two files, the first one twice.    *)
(***************************************************************************)
HashContents == 0..(2 * DigestPrefixes - 1)

HIdle ==
    /\ hPc = "idle"
    /\ fileX = 0
    /\ fileY = 0
    /\ hashes = <<>>

HInit ==
    /\ hPc = "x"
    /\ fileX \in HashContents
    /\ fileY \in HashContents
    /\ hashes = <<>>

\* archive.rs:25-31
HashX ==
    /\ hPc = "x"
    /\ hashes' = Append(hashes, hash_string(fileX))
    /\ hPc' = "y"
    /\ UNCHANGED <<fileX, fileY>>
    /\ UNCHANGED nonHVars

HashY ==
    /\ hPc = "y"
    /\ hashes' = Append(hashes, hash_string(fileY))
    /\ hPc' = "again"
    /\ UNCHANGED <<fileX, fileY>>
    /\ UNCHANGED nonHVars

HashXAgain ==
    /\ hPc = "again"
    /\ hashes' = Append(hashes, hash_string(fileX))
    /\ hPc' = "done"
    /\ UNCHANGED <<fileX, fileY>>
    /\ UNCHANGED nonHVars

\* archive.rs:26: the file cannot be read.
HashFails ==
    /\ hPc \in {"x", "y", "again"}
    /\ hPc' = "failed"
    /\ UNCHANGED <<fileX, fileY, hashes>>
    /\ UNCHANGED nonHVars

NextHash ==
    \/ HashX
    \/ HashY
    \/ HashXAgain
    \/ HashFails

(***************************************************************************)
(* The loop of finalize_stub (pack/stub.rs:110-119), one pass per step.    *)
(***************************************************************************)
MaxBaseLen == 1000   \* the largest stub length without its placeholder

\* stub.rs:112-113: base_len + size.to_string().len()
CandidateBroken(b, s) == b + Digits(s) + 1
Candidate(b, s) == b + Digits(s)

FxIdle ==
    /\ fxPc = "idle"
    /\ fxBaseLen = 0
    /\ fxSize = 0
    /\ iterations = 0

\* finalize_stub is called on a stub of any length that holds the placeholder.
FxInit ==
    /\ fxPc = "start"
    /\ fxBaseLen \in 0..MaxBaseLen
    /\ fxSize = 0
    /\ iterations = 0

\* stub.rs:109-110: let mut size = base_len + 1
FinalizeStart ==
    /\ fxPc = "start"
    /\ fxSize' = fxBaseLen + 1
    /\ fxPc' = "loop"
    /\ UNCHANGED <<fxBaseLen, iterations>>
    /\ UNCHANGED nonFxVars

\* stub.rs:111-119: one pass through the loop body
LoopPass ==
    /\ fxPc = "loop"
    /\ LET digits == Digits(fxSize)
           candidate == Candidate(fxBaseLen, fxSize)
       IN  /\ fxSize' = candidate
           /\ fxPc' = IF Digits(candidate) = digits THEN "done" ELSE "loop"
    /\ iterations' = iterations + 1
    /\ UNCHANGED fxBaseLen
    /\ UNCHANGED nonFxVars

NextFixpoint == FinalizeStart \/ LoopPass

(***************************************************************************)
(* Runs of one packed executable that share $HOME/.jbundle/cache: the       *)
(* extraction lines of the script generate() emits (pack/stub.rs:69-96).    *)
(* Each run tests a directory or file of the cache and extracts into the   *)
(* final location when the test fails.  tar writes one archive entry at a   *)
(* time; the redirection `> app.jar` creates or truncates the file before  *)
(* gzip writes to it.  Nothing in the script removes what a stopped         *)
(* extraction has written, and the script takes no lock.  Which java        *)
(* command line the run ends with is the subject of the launcher section    *)
(* above; here the run ends when it hands the cache to exec.                *)
(***************************************************************************)
NumRuns == 2         \* the runs of the executable that are followed

Runs == 1..NumRuns

BIN == "bin/"
BIN_JAVA == "bin/java"
LIB_MODULES == "lib/modules"
CR == "cr/"
CR_IMAGE == "cr/core.img"

ABSENT == "absent"
PARTIAL == "partial"
COMPLETE == "complete"

\* pack/archive.rs:16: tar.append_dir_all(".", runtime_dir): a directory entry
\* comes before what it holds, directories in the order read_dir gives them.
RtArchives ==
    {<<BIN, BIN_JAVA, LIB_MODULES>>, <<LIB_MODULES, BIN, BIN_JAVA>>}

\* crac.rs:134: tar.append_dir_all("cr", cr_dir)
CracArchiveBroken == <<"core.img">>
CracArchive == <<CR, CR_IMAGE>>

TarEntries(tarball) == {tarball[i] : i \in 1..Len(tarball)}

\* [ -d "$RT_DIR/bin" ]
RtCached(dir) == BIN \in dir

\* [ -f "$APP_DIR/app.jar" ]
AppCached(file) == file # ABSENT

\* [ -d "$CRAC_DIR/cr" ]
CracCached(dir) == CR \in dir

\* [ "$CRAC_SIZE" -gt 0 ] 2>/dev/null && [ "$(uname)" = "Linux" ]
CracBranch == runCracSize > 0 /\ uname = "Linux"

RtComplete == TarEntries(rtArchive) \subseteq RT_DIR

AppComplete == APP_JAR = COMPLETE

CracComplete == TarEntries(CracArchive) \subseteq CRAC_DIR

ExtractionCompleted == \E r \in Runs : runPc[r] \in {"launch", "done"}

NotLaunched ==
    [java |-> None, jar |-> None, rt_complete |-> FALSE, app_complete |-> FALSE]

LcIdle ==
    /\ runPc = [r \in Runs |-> "idle"]
    /\ uname = "Linux"
    /\ runCracSize = 0
    /\ rtArchive = <<>>
    /\ RT_DIR = {}
    /\ APP_JAR = ABSENT
    /\ CRAC_DIR = {}
    /\ tarPos = [r \in Runs |-> 0]
    /\ did_extract = [r \in Runs |-> {}]
    /\ did_skip = [r \in Runs |-> {}]
    /\ afterComplete = [r \in Runs |-> FALSE]
    /\ launchedFrom = [r \in Runs |-> NotLaunched]

\* A freshly packed executable: nothing of it is in the cache yet.
LcInit ==
    /\ runPc = [r \in Runs |-> "not_started"]
    /\ uname \in Hosts
    /\ runCracSize \in CracSizes
    /\ rtArchive \in RtArchives
    /\ RT_DIR = {}
    /\ APP_JAR = ABSENT
    /\ CRAC_DIR = {}
    /\ tarPos = [r \in Runs |-> 0]
    /\ did_extract = [r \in Runs |-> {}]
    /\ did_skip = [r \in Runs |-> {}]
    /\ afterComplete = [r \in Runs |-> FALSE]
    /\ launchedFrom = [r \in Runs |-> NotLaunched]

\* The executable is started once more.
RunStart(r) ==
    /\ runPc[r] = "not_started"
    /\ runPc' = [runPc EXCEPT ![r] = "runtime"]
    /\ afterComplete' = [afterComplete EXCEPT ![r] = ExtractionCompleted]
    /\ UNCHANGED <<uname, runCracSize, rtArchive, RT_DIR, APP_JAR, CRAC_DIR, tarPos,
                   did_extract, did_skip, launchedFrom>>
    /\ UNCHANGED nonLcVars

\* stub.rs:71-72: if [ ! -d "$RT_DIR/bin" ]; then mkdir -p "$RT_DIR"
RunTestRuntime(r) ==
    /\ runPc[r] = "runtime"
    /\ IF RtCached(RT_DIR)
       THEN /\ runPc' = [runPc EXCEPT ![r] = "app"]
            /\ did_skip' = [did_skip EXCEPT ![r] = @ \cup {"rt"}]
            /\ UNCHANGED did_extract
       ELSE /\ runPc' = [runPc EXCEPT ![r] = "runtime_tar"]
            /\ did_extract' = [did_extract EXCEPT ![r] = @ \cup {"rt"}]
            /\ UNCHANGED did_skip
    /\ tarPos' = [tarPos EXCEPT ![r] = 0]
    /\ UNCHANGED <<uname, runCracSize, rtArchive, RT_DIR, APP_JAR, CRAC_DIR, afterComplete,
                   launchedFrom>>
    /\ UNCHANGED nonLcVars

\* stub.rs:74: ... | tar xzf - -C "$RT_DIR", one archive entry per step
RunExtractRuntime(r) ==
    /\ runPc[r] = "runtime_tar"
    /\ RT_DIR' = RT_DIR \cup {rtArchive[tarPos[r] + 1]}
    /\ tarPos' = [tarPos EXCEPT ![r] = @ + 1]
    /\ runPc' = [runPc EXCEPT ![r] =
                    IF tarPos[r] + 1 = Len(rtArchive) THEN "app" ELSE "runtime_tar"]
    /\ UNCHANGED <<uname, runCracSize, rtArchive, APP_JAR, CRAC_DIR, did_extract, did_skip,
                   afterComplete, launchedFrom>>
    /\ UNCHANGED nonLcVars

\* stub.rs:79-80: if [ ! -f "$APP_DIR/app.jar" ]; then mkdir -p "$APP_DIR"
RunTestApp(r) ==
    /\ runPc[r] = "app"
    /\ IF AppCached(APP_JAR)
       THEN /\ runPc' = [runPc EXCEPT ![r] = "crac"]
            /\ did_skip' = [did_skip EXCEPT ![r] = @ \cup {"app"}]
            /\ UNCHANGED did_extract
       ELSE /\ runPc' = [runPc EXCEPT ![r] = "app_open"]
            /\ did_extract' = [did_extract EXCEPT ![r] = @ \cup {"app"}]
            /\ UNCHANGED did_skip
    /\ UNCHANGED <<uname, runCracSize, rtArchive, RT_DIR, APP_JAR, CRAC_DIR, tarPos,
                   afterComplete, launchedFrom>>
    /\ UNCHANGED nonLcVars

\* stub.rs:81: `> "$APP_DIR/app.jar"`: the shell creates or truncates the file
RunOpenAppJar(r) ==
    /\ runPc[r] = "app_open"
    /\ APP_JAR' = PARTIAL
    /\ runPc' = [runPc EXCEPT ![r] = "app_gzip"]
    /\ UNCHANGED <<uname, runCracSize, rtArchive, RT_DIR, CRAC_DIR, tarPos, did_extract,
                   did_skip, afterComplete, launchedFrom>>
    /\ UNCHANGED nonLcVars

\* stub.rs:81: ... | gzip -d has written its last byte.  The file holds the
\* whole jar unless another run's gzip is still writing into it after a truncation.
RunGzipDone(r) ==
    /\ runPc[r] = "app_gzip"
    /\ APP_JAR' = IF \E q \in Runs \ {r} : runPc[q] = "app_gzip" THEN PARTIAL ELSE COMPLETE
    /\ runPc' = [runPc EXCEPT ![r] = "crac"]
    /\ UNCHANGED <<uname, runCracSize, rtArchive, RT_DIR, CRAC_DIR, tarPos, did_extract,
                   did_skip, afterComplete, launchedFrom>>
    /\ UNCHANGED nonLcVars

\* stub.rs:86-89: the CRaC branch and, in it, if [ ! -d "$CRAC_DIR/cr" ]
RunTestCrac(r) ==
    /\ runPc[r] = "crac"
    /\ IF ~CracBranch
       THEN /\ runPc' = [runPc EXCEPT ![r] = "launch"]
            /\ UNCHANGED <<did_skip, did_extract>>
       ELSE IF CracCached(CRAC_DIR)
       THEN /\ runPc' = [runPc EXCEPT ![r] = "launch"]
            /\ did_skip' = [did_skip EXCEPT ![r] = @ \cup {"crac"}]
            /\ UNCHANGED did_extract
       ELSE /\ runPc' = [runPc EXCEPT ![r] = "crac_tar"]
            /\ did_extract' = [did_extract EXCEPT ![r] = @ \cup {"crac"}]
            /\ UNCHANGED did_skip
    /\ tarPos' = [tarPos EXCEPT ![r] = 0]
    /\ UNCHANGED <<uname, runCracSize, rtArchive, RT_DIR, APP_JAR, CRAC_DIR, afterComplete,
                   launchedFrom>>
    /\ UNCHANGED nonLcVars

\* stub.rs:90: ... | tar xzf - -C "$CRAC_DIR", one archive entry per step
RunExtractCrac(r) ==
    /\ runPc[r] = "crac_tar"
    /\ CRAC_DIR' = CRAC_DIR \cup {CracArchive[tarPos[r] + 1]}
    /\ tarPos' = [tarPos EXCEPT ![r] = @ + 1]
    /\ runPc' = [runPc EXCEPT ![r] =
                    IF tarPos[r] + 1 = Len(CracArchive) THEN "launch" ELSE "crac_tar"]
    /\ UNCHANGED <<uname, runCracSize, rtArchive, RT_DIR, APP_JAR, did_extract, did_skip,
                   afterComplete, launchedFrom>>
    /\ UNCHANGED nonLcVars

\* stub.rs:92, 96: exec "$RT_DIR/bin/java" ... -jar "$APP_DIR/app.jar"
RunExec(r) ==
    /\ runPc[r] = "launch"
    /\ launchedFrom' = [launchedFrom EXCEPT ![r] =
            [java |-> <<"rt-RT_HASH", BIN_JAVA>>, jar |-> <<"app-APP_HASH", "app.jar">>,
             rt_complete |-> RtComplete, app_complete |-> AppComplete]]
    /\ runPc' = [runPc EXCEPT ![r] = "done"]
    /\ UNCHANGED <<uname, runCracSize, rtArchive, RT_DIR, APP_JAR, CRAC_DIR, tarPos,
                   did_extract, did_skip, afterComplete>>
    /\ UNCHANGED nonLcVars

\* An extraction stops half way: tar or gzip fails under `set -e` (the disk
\* is full), or the run is killed.  What it has written stays in the cache.
RunStopsInExtraction(r) ==
    /\ runPc[r] \in {"runtime_tar", "app_gzip", "crac_tar"}
    /\ runPc' = [runPc EXCEPT ![r] = "stopped"]
    /\ UNCHANGED <<uname, runCracSize, rtArchive, RT_DIR, APP_JAR, CRAC_DIR, tarPos,
                   did_extract, did_skip, afterComplete, launchedFrom>>
    /\ UNCHANGED nonLcVars

NextLaunchCache ==
    \E r \in Runs :
        \/ RunStart(r)
        \/ RunTestRuntime(r)
        \/ RunExtractRuntime(r)
        \/ RunTestApp(r)
        \/ RunOpenAppJar(r)
        \/ RunGzipDone(r)
        \/ RunTestCrac(r)
        \/ RunExtractCrac(r)
        \/ RunExec(r)
        \/ RunStopsInExtraction(r)

(***************************************************************************)
(* create_checkpoint (crac.rs:13-87) and wait_for_exit (crac.rs:108-127).   *)
(* The application is a child process: it runs until it exits by itself or *)
(* is killed; after it has exited it stays unreaped until wait or try_wait *)
(* collects it.  Dropping a std::process::Child neither kills nor waits.   *)
(* The clock of wait_for_exit is in seconds: one step of polling stands    *)
(* for the polls of one second.                                             *)
(***************************************************************************)
WAIT_TIMEOUT == 30

CORE == "core"
DUMP4_LOG == "dump4.log"
OTHER_FILE == "pages-1.img"

CrFiles == {CORE, DUMP4_LOG, OTHER_FILE}

CK_OK == "Ok(crac.tar.gz)"
CRAC_NOT_SUPPORTED == "CracNotSupported"
FAILED_TO_RUN_JAVA == "CracCheckpointFailed: failed to run java"
FAILED_TO_SPAWN_JAVA == "CracCheckpointFailed: failed to spawn java"
FAILED_TO_RUN_JCMD == "CracCheckpointFailed: failed to run jcmd"
JCMD_CHECKPOINT_FAILED == "CracCheckpointFailed: jcmd checkpoint failed"
CHECKPOINT_DIR_EMPTY == "CracCheckpointFailed: checkpoint directory is empty"
CK_IO == "Io"

\* crac.rs:54-55, 65-66: let _ = child.kill(); let _ = child.wait();
KillAndWait(c) == "reaped"

\* crac.rs:70-75: neither core nor dump4.log exists and read_dir gives nothing
DirIsEmpty(dir) == CORE \notin dir /\ DUMP4_LOG \notin dir /\ dir = {}

CkIdle ==
    /\ ckPc = "idle"
    /\ child = "none"
    /\ cr_dir = {}
    /\ checkpoint_requested = FALSE
    /\ ckElapsed = 0
    /\ ckRet = None

CkInit ==
    /\ ckPc = "verify"
    /\ child = "none"
    /\ cr_dir = {}
    /\ checkpoint_requested = FALSE
    /\ ckElapsed = 0
    /\ ckRet = None

\* crac.rs:23: verify_crac_support(&java)?
VerifyCracSupport ==
    /\ ckPc = "verify"
    /\ \/ ckPc' = "create_dir" /\ ckRet' = ckRet
       \/ ckPc' = "done" /\ ckRet' \in {FAILED_TO_RUN_JAVA, CRAC_NOT_SUPPORTED}
    /\ UNCHANGED <<child, cr_dir, checkpoint_requested, ckElapsed>>
    /\ UNCHANGED nonCkVars

\* crac.rs:25: std::fs::create_dir_all(&cr_dir)?
CreateCrDir ==
    /\ ckPc = "create_dir"
    /\ \/ ckPc' = "spawn" /\ ckRet' = ckRet
       \/ ckPc' = "done" /\ ckRet' = CK_IO
    /\ UNCHANGED <<child, cr_dir, checkpoint_requested, ckElapsed>>
    /\ UNCHANGED nonCkVars

\* crac.rs:30-37: Command::new(&java)...spawn().map_err(...)?
SpawnChild ==
    /\ ckPc = "spawn"
    /\ \/ ckPc' = "warmup" /\ child' = "running" /\ ckRet' = ckRet
       \/ ckPc' = "done" /\ child' = child /\ ckRet' = FAILED_TO_SPAWN_JAVA
    /\ UNCHANGED <<cr_dir, checkpoint_requested, ckElapsed>>
    /\ UNCHANGED nonCkVars

\* crac.rs:43: std::thread::sleep(Duration::from_secs(5))
Warmup ==
    /\ ckPc = "warmup"
    /\ ckPc' = "jcmd"
    /\ UNCHANGED <<child, cr_dir, checkpoint_requested, ckElapsed, ckRet>>
    /\ UNCHANGED nonCkVars

\* crac.rs:47-51: Command::new(&jcmd)...output().map_err(...)?: jcmd cannot be
\* started (the runtime has no bin/jcmd), and the function returns.
JcmdCannotStart ==
    /\ ckPc = "jcmd"
    /\ ckPc' = "done"
    /\ ckRet' = FAILED_TO_RUN_JCMD
    /\ UNCHANGED <<child, cr_dir, checkpoint_requested, ckElapsed>>
    /\ UNCHANGED nonCkVars

\* crac.rs:53-60: jcmd ran and exited non-zero
JcmdFails ==
    /\ ckPc = "jcmd"
    /\ child' = KillAndWait(child)
    /\ ckPc' = "done"
    /\ ckRet' = JCMD_CHECKPOINT_FAILED
    /\ UNCHANGED <<cr_dir, checkpoint_requested, ckElapsed>>
    /\ UNCHANGED nonCkVars

\* crac.rs:53, 63: jcmd succeeded; wait_for_exit starts its clock
JcmdSucceeds ==
    /\ ckPc = "jcmd"
    /\ checkpoint_requested' = (child = "running")
    /\ ckElapsed' = 0
    /\ ckPc' = "wait"
    /\ UNCHANGED <<child, cr_dir, ckRet>>
    /\ UNCHANGED nonCkVars

\* crac.rs:115-116: try_wait gives Ok(Some(status)): the child is reaped
PollExited ==
    /\ ckPc = "wait"
    /\ child = "exited"
    /\ child' = "reaped"
    /\ ckPc' = "verify_dir"
    /\ UNCHANGED <<cr_dir, checkpoint_requested, ckElapsed, ckRet>>
    /\ UNCHANGED nonCkVars

\* crac.rs:117-122: Ok(None) before the timeout: sleep and poll again
PollRunning ==
    /\ ckPc = "wait"
    /\ child = "running"
    /\ ckElapsed < WAIT_TIMEOUT
    /\ ckElapsed' = ckElapsed + 1
    /\ UNCHANGED <<ckPc, child, cr_dir, checkpoint_requested, ckRet>>
    /\ UNCHANGED nonCkVars

\* crac.rs:118-120, 64-67: Ok(None) at the timeout: Err(()), kill and wait
PollTimesOut ==
    /\ ckPc = "wait"
    /\ child = "running"
    /\ ckElapsed >= WAIT_TIMEOUT
    /\ child' = KillAndWait(child)
    /\ ckPc' = "verify_dir"
    /\ UNCHANGED <<cr_dir, checkpoint_requested, ckElapsed, ckRet>>
    /\ UNCHANGED nonCkVars

\* crac.rs:124, 64-67: try_wait fails: Err(()), kill and wait
PollFails ==
    /\ ckPc = "wait"
    /\ child' = KillAndWait(child)
    /\ ckPc' = "verify_dir"
    /\ UNCHANGED <<cr_dir, checkpoint_requested, ckElapsed, ckRet>>
    /\ UNCHANGED nonCkVars

\* crac.rs:70-80: the checkpoint directory is looked at
VerifyCheckpoint ==
    /\ ckPc = "verify_dir"
    /\ IF DirIsEmpty(cr_dir)
       THEN ckPc' = "done" /\ ckRet' = CHECKPOINT_DIR_EMPTY
       ELSE ckPc' = "package" /\ ckRet' = ckRet
    /\ UNCHANGED <<child, cr_dir, checkpoint_requested, ckElapsed>>
    /\ UNCHANGED nonCkVars

\* crac.rs:83-86: package_checkpoint(&cr_dir, &archive_path)?; Ok(archive_path)
PackageCheckpoint ==
    /\ ckPc = "package"
    /\ ckPc' = "done"
    /\ ckRet' \in {CK_OK, CK_IO}
    /\ UNCHANGED <<child, cr_dir, checkpoint_requested, ckElapsed>>
    /\ UNCHANGED nonCkVars

\* The application exits by itself: after its checkpoint, or at any time.
ChildExits ==
    /\ child = "running"
    /\ child' = "exited"
    /\ UNCHANGED <<ckPc, cr_dir, checkpoint_requested, ckElapsed, ckRet>>
    /\ UNCHANGED nonCkVars

\* The application, asked for a checkpoint, writes a file of the image.
ChildWritesImage ==
    /\ child = "running"
    /\ checkpoint_requested
    /\ \E f \in CrFiles \ cr_dir : cr_dir' = cr_dir \cup {f}
    /\ UNCHANGED <<ckPc, child, checkpoint_requested, ckElapsed, ckRet>>
    /\ UNCHANGED nonCkVars

NextCheckpoint ==
    \/ VerifyCracSupport
    \/ CreateCrDir
    \/ SpawnChild
    \/ Warmup
    \/ JcmdCannotStart
    \/ JcmdFails
    \/ JcmdSucceeds
    \/ PollExited
    \/ PollRunning
    \/ PollTimesOut
    \/ PollFails
    \/ VerifyCheckpoint
    \/ PackageCheckpoint
    \/ ChildExits
    \/ ChildWritesImage

(***************************************************************************)
(* Specifications: one per subsystem.                                      *)
(***************************************************************************)
InitCache ==
    CacheInit /\ DlIdle /\ PkIdle /\ SkIdle /\ ShIdle /\ BIdle /\ VIdle /\ LwIdle
    /\ LnIdle /\ MdIdle /\ CfIdle /\ AnIdle /\ HIdle /\ FxIdle /\ LcIdle /\ CkIdle

SpecCache == InitCache /\ [][NextCache]_vars

\* The acquisitions with a `jbundle clean` running beside them.
\* The calls keep running: a call that can take a step eventually takes one (the
\* poll loop sleeps LOCK_POLL_INTERVAL and tries again, the HTTP calls and the
\* extraction return), unless it is interrupted.
CallStep(p) ==
    \/ FastPathHit(p) \/ FastPathMiss(p)
    \/ OpenLockFile(p) \/ OpenLockFileFails(p)
    \/ LockAcquired(p) \/ LockTimesOut(p)
    \/ RecheckHit(p) \/ RecheckMiss(p)
    \/ FetchRelease(p) \/ DownloadArchive(p)
    \/ ExtractBegin(p) \/ ExtractRename(p) \/ ExtractFails(p)
    \/ UnlockAndReturn(p)

\* NumCallers calls of ensure_jdk(v, t) on a cold cache; the other processes make none.
CacheInitCallers ==
    /\ pc = [p \in Procs |-> IF p <= NumCallers THEN "start" ELSE "idle"]
    /\ lockHolder = {}
    /\ lockFile = FALSE
    /\ cacheDir = "absent"
    /\ tmpDir = "absent"
    /\ warned = [p \in Procs |-> FALSE]
    /\ result = [p \in Procs |-> None]
    /\ ret = [p \in Procs |-> None]
    /\ via = [p \in Procs |-> None]
    /\ performed = [p \in Procs |-> FALSE]
    /\ inode = 0
    /\ fd = [p \in Procs |-> 0]
    /\ cleans = 0
    /\ clPc = "idle"
    /\ extracted = [p \in Procs |-> FALSE]
    /\ downloaded = [p \in Procs |-> FALSE]

InitCacheFair ==
    CacheInitCallers /\ DlIdle /\ PkIdle /\ SkIdle /\ ShIdle /\ BIdle /\ VIdle /\ LwIdle
    /\ LnIdle /\ MdIdle /\ CfIdle /\ AnIdle /\ HIdle /\ FxIdle /\ LcIdle /\ CkIdle

SpecCacheFair ==
    InitCacheFair /\ [][NextCache]_vars /\ \A p \in Procs : WF_vars(CallStep(p))

NextCacheClean == NextCache \/ CleanStart \/ CleanRemoveEntry \/ CleanFinish

SpecCacheClean == InitCache /\ [][NextCacheClean]_vars

InitDownload ==
    DlInit /\ CacheIdle /\ PkIdle /\ SkIdle /\ ShIdle /\ BIdle /\ VIdle /\ LwIdle
    /\ LnIdle /\ MdIdle /\ CfIdle /\ AnIdle /\ HIdle /\ FxIdle /\ LcIdle /\ CkIdle

SpecDownload == InitDownload /\ [][NextDownload]_vars

InitPack ==
    PkInit /\ CacheIdle /\ DlIdle /\ SkIdle /\ ShIdle /\ BIdle /\ VIdle /\ LwIdle
    /\ LnIdle /\ MdIdle /\ CfIdle /\ AnIdle /\ HIdle /\ FxIdle /\ LcIdle /\ CkIdle

SpecPack == InitPack /\ [][NextPack]_vars

InitSkip ==
    SkInit /\ CacheIdle /\ DlIdle /\ PkIdle /\ ShIdle /\ BIdle /\ VIdle /\ LwIdle
    /\ LnIdle /\ MdIdle /\ CfIdle /\ AnIdle /\ HIdle /\ FxIdle /\ LcIdle /\ CkIdle

SpecSkip == InitSkip /\ [][NextSkip]_vars

InitShrink ==
    ShInit /\ CacheIdle /\ DlIdle /\ PkIdle /\ SkIdle /\ BIdle /\ VIdle /\ LwIdle
    /\ LnIdle /\ MdIdle /\ CfIdle /\ AnIdle /\ HIdle /\ FxIdle /\ LcIdle /\ CkIdle

SpecShrink == InitShrink /\ [][NextShrink]_vars

InitBuild ==
    BInit /\ CacheIdle /\ DlIdle /\ PkIdle /\ SkIdle /\ ShIdle /\ VIdle /\ LwIdle
    /\ LnIdle /\ MdIdle /\ CfIdle /\ AnIdle /\ HIdle /\ FxIdle /\ LcIdle /\ CkIdle

SpecBuild == InitBuild /\ [][NextBuild]_vars

InitValidate ==
    VInit /\ CacheIdle /\ DlIdle /\ PkIdle /\ SkIdle /\ ShIdle /\ BIdle /\ LwIdle
    /\ LnIdle /\ MdIdle /\ CfIdle /\ AnIdle /\ HIdle /\ FxIdle /\ LcIdle /\ CkIdle

SpecValidate == InitValidate /\ [][NextValidate]_vars

InitLockWait ==
    LwInit /\ CacheIdle /\ DlIdle /\ PkIdle /\ SkIdle /\ ShIdle /\ BIdle /\ VIdle
    /\ LnIdle /\ MdIdle /\ CfIdle /\ AnIdle /\ HIdle /\ FxIdle /\ LcIdle /\ CkIdle

SpecLockWait == InitLockWait /\ [][NextLockWait]_vars

InitLaunch ==
    LnInit /\ CacheIdle /\ DlIdle /\ PkIdle /\ SkIdle /\ ShIdle /\ BIdle /\ VIdle
    /\ LwIdle /\ MdIdle /\ CfIdle /\ AnIdle /\ HIdle /\ FxIdle /\ LcIdle /\ CkIdle

SpecLaunch == InitLaunch /\ [][NextLaunch]_vars

InitModules ==
    MdInit /\ CacheIdle /\ DlIdle /\ PkIdle /\ SkIdle /\ ShIdle /\ BIdle /\ VIdle
    /\ LwIdle /\ LnIdle /\ CfIdle /\ AnIdle /\ HIdle /\ FxIdle /\ LcIdle /\ CkIdle

SpecModules == InitModules /\ [][NextModules]_vars

InitConfig ==
    CfInit /\ CacheIdle /\ DlIdle /\ PkIdle /\ SkIdle /\ ShIdle /\ BIdle /\ VIdle
    /\ LwIdle /\ LnIdle /\ MdIdle /\ AnIdle /\ HIdle /\ FxIdle /\ LcIdle /\ CkIdle

SpecConfig == InitConfig /\ [][NextConfig]_vars

InitAnalyze ==
    AnInit /\ CacheIdle /\ DlIdle /\ PkIdle /\ SkIdle /\ ShIdle /\ BIdle /\ VIdle
    /\ LwIdle /\ LnIdle /\ MdIdle /\ CfIdle /\ HIdle /\ FxIdle /\ LcIdle /\ CkIdle

SpecAnalyze == InitAnalyze /\ [][NextAnalyze]_vars

InitHash ==
    HInit /\ CacheIdle /\ DlIdle /\ PkIdle /\ SkIdle /\ ShIdle /\ BIdle /\ VIdle
    /\ LwIdle /\ LnIdle /\ MdIdle /\ CfIdle /\ AnIdle /\ FxIdle /\ LcIdle /\ CkIdle

SpecHash == InitHash /\ [][NextHash]_vars

(***************************************************************************)
(* Claims about ensure_jdk, checked under SpecCache.                       *)
(***************************************************************************)
InBlock(p) == pc[p] \in {"fetch", "download", "extract", "extracting"}

CacheErrors == {"Io", "Http", "JdkDownload", "ChecksumMismatch"}

\* C1 (as stated): once all N calls on a cold cache have returned (none of them
\* interrupted, none failing to create its lockfile), exactly one process has
\* performed download+extraction and every call returned a valid cache path or
\* CacheLockTimeout.
C1_ExactlyOneExtractsAllReturn ==
    (\A p \in Procs : pc[p] = "done" /\ ret[p] # "Io")
        => /\ Cardinality({p \in Procs : performed[p]}) = 1
           /\ \A p \in Procs : ret[p] \in {"path", "CacheLockTimeout"}
           /\ \A p \in Procs : ret[p] = "path" => cacheDir = "complete"

\* C1 (amended): at most one process at a time is inside download+extraction and
\* at most one extraction ever completes; a call returns a valid cache path,
\* CacheLockTimeout or the error of its own failed step; and when every call
\* returned a path or CacheLockTimeout, exactly one process performed
\* download+extraction.
C1_OneExtractorAtATime ==
    /\ Cardinality({p \in Procs : InBlock(p)}) <= 1
    /\ Cardinality({p \in Procs : extracted[p]}) <= 1
    /\ \A p \in Procs :
          /\ pc[p] = "done" => ret[p] \in {"path", "CacheLockTimeout"} \cup CacheErrors
          /\ ret[p] = "path" => cacheDir = "complete"
          /\ ret[p] \in CacheErrors \ {"Io"} => performed[p]
    /\ (\A p \in Procs : pc[p] = "done" /\ ret[p] \in {"path", "CacheLockTimeout"})
          => Cardinality({p \in Procs : performed[p]}) = 1

\* C1 witness: one process populated the cache while the others were waiting for
\* the lock; all have returned, one of the others after the re-check and one
\* with CacheLockTimeout.
C1_Witness ==
    \E p, q, r \in Procs :
        /\ extracted[p] /\ via[p] = "populate"
        /\ warned[q] /\ via[q] = "recheck"
        /\ warned[r] /\ ret[r] = "CacheLockTimeout"

Completed(o) == o.kind = "Ok"

WrongHash(o) == Completed(o) /\ o.wrote # <<asset>>

Kinds == [n \in 1..Len(outcomes) |-> outcomes[n].kind]

C4_ThreeAttemptsWithBackoff ==
    /\ Len(outcomes) <= 3
    /\ attempt <= 3
    /\ Len(sleeps) <= 2
    /\ \A n \in 1..Len(sleeps) :
          outcomes[n].kind = "Retryable" => sleeps[n] = (IF n = 1 THEN 1 ELSE 2)
    /\ \A n \in 1..Len(outcomes) :
          (outcomes[n].kind = "Retryable" /\ n < 3) => Len(sleeps) >= n
    /\ (Kinds = <<"Retryable", "Retryable", "Ok">> /\ outcomes[3].wrote = <<asset>>)
          => dlRet = "Ok" /\ sleeps = <<1, 2>>
    /\ (Len(outcomes) = 3 /\ outcomes[3].kind = "Retryable")
          => dlPc = "done" /\ dlRet = "JdkDownload" /\ Len(sleeps) = 2

\* C4 witness: 503, 503, 200: success on the third attempt after 1 s and 2 s.
C4_Witness ==
    /\ Kinds = <<"Retryable", "Retryable", "Ok">>
    /\ dlRet = "Ok"
    /\ sleeps = <<1, 2>>

STUB_SIZE == ShellValue(stub, "STUB_SIZE")
RT_SIZE == ShellValue(stub, "RT_SIZE")
APP_SIZE == ShellValue(stub, "APP_SIZE")
CRAC_SIZE == ShellValue(stub, "CRAC_SIZE")

RECURSIVE PayloadOffset(_)
\* The offset of the first byte of the file that is not a byte of the stub.
PayloadOffset(file) ==
    IF file = <<>> \/ Head(file).k = "region" THEN 0
    ELSE Head(file).n + PayloadOffset(Tail(file))

RECURSIVE ByteAt(_, _)
\* The byte at offset off of the file: <<region, offset inside the region>>, with
\* all the bytes of the stub in the region "stub".
ByteAt(file, off) ==
    IF file = <<>> THEN <<"eof", 0>>
    ELSE IF off < Head(file).n
         THEN <<IF Head(file).k = "region" THEN Head(file).at ELSE "stub", off>>
         ELSE ByteAt(Tail(file), off - Head(file).n)

ArgsHavePlaceholder ==
    \E i \in 1..Len(opts.jvm_args) : \E j \in 1..Len(opts.jvm_args[i]) :
        opts.jvm_args[i][j].k = "ph"

\* C6: in every binary create_binary has written, STUB_SIZE as written by
\* finalize_stub is the byte length of the stub, which is the offset of the first
\* payload byte, and STUB_SIZE + RT_SIZE + APP_SIZE + CRAC_SIZE is the length of
\* the file; for every combination of stub parameters.
C6_StubSizeIsStubLength ==
    pkPc = "done"
        => /\ STUB_SIZE = StrLen(stub)
           /\ STUB_SIZE = PayloadOffset(outFile)
           /\ STUB_SIZE + RT_SIZE + APP_SIZE + CRAC_SIZE = StrLen(outFile)

\* C6, restricted to --jvm-args that do not contain the text __STUB_SIZE__: this
\* part of the claim holds.
C6_HoldsWithoutPlaceholderInArgs ==
    (pkPc = "done" /\ ~ArgsHavePlaceholder)
        => /\ STUB_SIZE = StrLen(stub)
           /\ STUB_SIZE = PayloadOffset(outFile)
           /\ STUB_SIZE + RT_SIZE + APP_SIZE + CRAC_SIZE = StrLen(outFile)

Slice(file, from, len, region) ==
    \A i \in 0..(len - 1) : ByteAt(file, from + i) = <<region, i>>

\* C7: the regions follow the stub in the order runtime.tar.gz, app.jar.gz,
\* checkpoint.tar.gz, and the ranges the launcher slices, [STUB_SIZE, +RT_SIZE),
\* then +APP_SIZE, then +CRAC_SIZE, are exactly the bytes of the runtime archive,
\* of the gzipped app and of the checkpoint archive.
C7_SlicesAreTheRegions ==
    pkPc = "done"
        => /\ [i \in 1..Len(SelectSeq(outFile, LAMBDA c : c.k = "region")) |->
                  SelectSeq(outFile, LAMBDA c : c.k = "region")[i].at]
                = (IF opts.has_crac
                   THEN <<"runtime.tar.gz", "app.jar.gz", "checkpoint.tar.gz">>
                   ELSE <<"runtime.tar.gz", "app.jar.gz">>)
           /\ RT_SIZE = opts.runtime_size
           /\ Slice(outFile, STUB_SIZE, RT_SIZE, "runtime.tar.gz")
           /\ APP_SIZE = opts.app_size
           /\ Slice(outFile, STUB_SIZE + RT_SIZE, APP_SIZE, "app.jar.gz")
           /\ CRAC_SIZE = (IF opts.has_crac THEN opts.crac_file ELSE 0)
           /\ Slice(outFile, STUB_SIZE + RT_SIZE + APP_SIZE, CRAC_SIZE, "checkpoint.tar.gz")

\* C7, restricted to --jvm-args that do not contain the text __STUB_SIZE__.
C7_HoldsWithoutPlaceholderInArgs ==
    ArgsHavePlaceholder \/ C7_SlicesAreTheRegions

(***************************************************************************)
(* Claims about the shrinker, checked under SpecShrink and SpecSkip.       *)
(***************************************************************************)
Kept == SelectSeq(archive, LAMBDA e : ~should_skip(e.name))

\* C8: the archive shrink_jar produces holds, in source order, exactly the
\* entries of the source whose name should_skip rejects, and each kept file
\* entry decompresses to the bytes it has in the source.
C8_OutputIsTheKeptEntries ==
    shPc = "done"
        => /\ Len(outArc) = Len(Kept)
           /\ \A i \in 1..Len(Kept) :
                 /\ outArc[i].name = Kept[i].name
                 /\ outArc[i].dir = is_dir(Kept[i].name)
                 /\ ~is_dir(Kept[i].name) => outArc[i].data = Kept[i].data

\* C8 witness: a source of three entries, one of them dropped, the two kept ones
\* files with different bytes.
C8_Witness ==
    /\ shPc = "done"
    /\ Len(archive) = 3
    /\ Len(outArc) = 2
    /\ ~outArc[1].dir /\ ~outArc[2].dir
    /\ outArc[1].data # outArc[2].data

Basename(name) == LastSegment(name)

\* The names the claim calls essential.
IsEssential(name) ==
    \/ ends_with(name, <<".", "c", "l", "a", "s", "s">>)
    \/ ends_with(name, <<".", "c", "l", "j">>)
    \/ ends_with(name, <<".", "c", "l", "j", "c">>)
    \/ ends_with(name, <<".", "c", "l", "j", "s">>)
    \/ name = MANIFEST_MF
    \/ starts_with(Basename(name), <<"L", "I", "C", "E", "N", "S", "E">>)
    \/ starts_with(Basename(name), <<"N", "O", "T", "I", "C", "E">>)

HasLegalBasename(name) ==
    \/ starts_with(Basename(name), <<"L", "I", "C", "E", "N", "S", "E">>)
    \/ starts_with(Basename(name), <<"N", "O", "T", "I", "C", "E">>)

\* The names should_skip drops although the claim calls them essential.
DroppedAnyway(name) ==
    \/ starts_with(name, META_INF_MAVEN)
    \/ starts_with(name, META_INF_LEININGEN)
    \/ name = PROJECT_CLJ
    \/ /\ HasLegalBasename(name)
       /\ \/ ends_with(name, <<".", "j", "a", "v", "a">>)
          \/ /\ starts_with(name, META_INF)
             /\ \/ ends_with(name, <<".", "S", "F">>)
                \/ ends_with(name, <<".", "D", "S", "A">>)
                \/ ends_with(name, <<".", "R", "S", "A">>)
                \/ ends_with(name, <<".", "E", "C">>)

ShrinkStageDone == shrinkMsg # None

\* The archive that is the smaller of the two, the original on a tie.
SmallerJar ==
    IF sizes.shrunk_size < sizes.original_size THEN "shrunk" ELSE "original"

\* C10: after the shrink stage the pipeline continues with the smaller of the
\* two archives: jar_path, and the archive handed to every later stage, is the
\* shrunk archive only when shrunk_size < original_size, and otherwise the
\* original archive.
C10_ContinuesWithSmallerJar ==
    ShrinkStageDone =>
        /\ jar_path = SmallerJar
        /\ \A st \in JarStages : jarUsed[st] \in {None, SmallerJar}

\* What does hold: after the shrink stage every later stage is handed the
\* shrunk archive, whatever the two sizes are, and the step reports "no
\* reduction (using original)" exactly when shrunk_size >= original_size.
C10_AlwaysContinuesWithShrunkJar ==
    ShrinkStageDone =>
        /\ jar_path = "shrunk"
        /\ \A st \in JarStages : jarUsed[st] \in {None, "shrunk"}
        /\ (shrinkMsg = NO_REDUCTION) <=> (sizes.shrunk_size >= sizes.original_size)

\* A build packed the shrunk archive after a shrink stage that reported "no
\* reduction (using original)".
C10_PackedShrunkAfterNoReduction ==
    /\ bRet = "ok"
    /\ shrinkMsg = NO_REDUCTION
    /\ sizes.shrunk_size > sizes.original_size
    /\ jarUsed["pack"] = "shrunk"

(***************************************************************************)
(* Claims about resolve_java_version, checked under SpecValidate.          *)
(***************************************************************************)
RECURSIVE ScannedFrom(_, _, _)
\* The major versions of the valid class entries among the entries the scan
\* looks at: from entry i on, with n class entries examined before it.
ScannedFrom(arc, i, n) ==
    IF i > Len(arc) \/ n >= limit THEN {}
    ELSE IF ~ends_with(arc[i].name, DOT_CLASS) \/ starts_with(arc[i].name, META_INF_VERSIONS)
         THEN ScannedFrom(arc, i + 1, n)
    ELSE (IF arc[i].data.len8 /\ arc[i].data.magic
          THEN {arc[i].data.b6 * 256 + arc[i].data.b7} ELSE {})
         \cup ScannedFrom(arc, i + 1, n + 1)

ScannedMajors == ScannedFrom(vArchive, 1, 0)

\* The language version of a class file of major version m.
LanguageVersion(m) == m - 44

MaxMajor == CHOOSE m \in ScannedMajors : \A k \in ScannedMajors : k <= m

VersionsFitU8 == \A m \in ScannedMajors : LanguageVersion(m) < U8

\* C11: whenever resolve_java_version returns Ok(r), r is not less than the
\* language version (major - 44) of any scanned valid class entry, for every
\* major version of the 16-bit field.
C11_ResultNotBelowMaxLanguageVersion ==
    (vPc = "done" /\ vRet.tag = "ok") =>
        \A m \in ScannedMajors : vRet.value >= LanguageVersion(m)

\* What does hold: the same for archives whose language versions fit 8 bits.
C11_HoldsWhenVersionsFitU8 ==
    (vPc = "done" /\ vRet.tag = "ok" /\ VersionsFitU8) =>
        \A m \in ScannedMajors : vRet.value >= LanguageVersion(m)

\* An archive with a class of major version 300 was resolved to the configured
\* version.
C11_Major300ResolvedToConfigured ==
    /\ vPc = "done" /\ vRet.tag = "ok"
    /\ 300 \in ScannedMajors
    /\ vRet.value = vConfigured

\* C12: for an archive that was read, resolve_java_version follows the
\* four-case policy, max being the largest language version (major - 44) of
\* the scanned valid classes: no valid class -> V; max <= V -> V; max > V and
\* explicit -> JavaVersionMismatch with required = max, configured = V and the
\* class major version; max > V and not explicit -> max.  Hence it never fails
\* when explicit is false and returns no value other than V or max.
C12_FourCasePolicy ==
    (vPc = "done" /\ vRet.tag # "io") =>
        IF ScannedMajors = {} \/ LanguageVersion(MaxMajor) <= vConfigured
        THEN vRet.tag = "ok" /\ vRet.value = vConfigured
        ELSE IF vExplicit
             THEN /\ vRet.tag = "mismatch"
                  /\ vRet.required = LanguageVersion(MaxMajor)
                  /\ vRet.configured = vConfigured
                  /\ vRet.class_version = MaxMajor
             ELSE vRet.tag = "ok" /\ vRet.value = LanguageVersion(MaxMajor)

\* What does hold: the policy for archives whose language versions fit 8 bits.
C12_HoldsWhenVersionsFitU8 ==
    (vPc = "done" /\ vRet.tag # "io" /\ VersionsFitU8) =>
        IF ScannedMajors = {} \/ LanguageVersion(MaxMajor) <= vConfigured
        THEN vRet.tag = "ok" /\ vRet.value = vConfigured
        ELSE IF vExplicit
             THEN /\ vRet.tag = "mismatch"
                  /\ vRet.required = LanguageVersion(MaxMajor)
                  /\ vRet.configured = vConfigured
                  /\ vRet.class_version = MaxMajor
             ELSE vRet.tag = "ok" /\ vRet.value = LanguageVersion(MaxMajor)

\* The version was explicit, a class of major version 300 was scanned, and
\* the call returned Ok.
C12_ExplicitMajor300Accepted ==
    /\ vPc = "done" /\ vRet.tag = "ok" /\ vExplicit
    /\ ScannedMajors # {} /\ MaxMajor = 300

(***************************************************************************)
(* Claims about the order of the stages of run_build, under SpecBuild.     *)
(***************************************************************************)
\* The stages a run with configuration c goes through, in order.
ExpectedStages(c) ==
    (IF c.is_jar_input THEN <<"input">> ELSE <<"detect", "uberjar">>)
      \o (IF c.shrink THEN <<"shrink">> ELSE <<>>)
      \o <<"version", "jdk", "modules", "runtime">>
      \o (IF c.crac THEN <<"checkpoint">> ELSE <<>>)
      \o <<"pack">>

IsPrefix(a, b) == Len(a) <= Len(b) /\ a = SubSeq(b, 1, Len(a))

\* C13: the stages start in the fixed order input (or detect, then build),
\* shrink iff config.shrink, version, JDK, modules, runtime, checkpoint iff
\* config.crac, pack; a run that failed starts no further stage, and pack is
\* executed only after every stage before it was started and did not end the
\* run.
C13_StagesInFixedOrder ==
    /\ [](IsPrefix(started, ExpectedStages(config)))
    /\ [](bRet = "ok" => started = ExpectedStages(config))
    /\ [](bRet = "err" => bPc = "done")
    /\ [][bRet = "err" => (started' = started /\ bRet' = "err")]_vars

\* C13 witness: a build from a project directory with shrink and checkpoint
\* went through all nine stages and packed.
C13_Witness ==
    /\ bRet = "ok"
    /\ ~config.is_jar_input /\ config.shrink /\ config.crac
    /\ started = <<"detect", "uberjar", "shrink", "version", "jdk", "modules",
                   "runtime", "checkpoint", "pack">>

\* The stage started last, None before the first.
LastStarted == IF started = <<>> THEN None ELSE started[Len(started)]

\* C14: when config.crac is set, no failure of the checkpoint stage fails the
\* build: a run never ends with an error in the checkpoint stage, and after a
\* failed checkpoint the step is reported as skipped and the pipeline goes on
\* to pack without a checkpoint.
C14_CheckpointFailureNeverFailsBuild ==
    /\ (LastStarted = "checkpoint") => bRet # "err"
    /\ (cracMsg = CHECKPOINT_SKIPPED) => crac_path = None

\* What does hold: an Err of create_checkpoint is reported as skipped and the
\* run goes on to pack without a checkpoint; the run ends in the checkpoint
\* stage only when the step has reported nothing.
C14_CreateCheckpointErrIsSkipped ==
    /\ (cracMsg = CHECKPOINT_SKIPPED) =>
          /\ crac_path = None
          /\ bPc = "pack" \/ LastStarted = "pack"
    /\ (LastStarted = "checkpoint" /\ bRet = "err") => cracMsg = None

\* A build with config.crac ended with an error in the checkpoint stage.
C14_BuildFailedInCheckpoint ==
    /\ config.crac
    /\ LastStarted = "checkpoint"
    /\ bRet = "err"

\* A build packed without a checkpoint after the step was reported as skipped.
C14_PackedAfterSkippedCheckpoint ==
    /\ bRet = "ok"
    /\ cracMsg = CHECKPOINT_SKIPPED
    /\ crac_path = None

(***************************************************************************)
(* Claims about the cache with a concurrent clean, under SpecCacheClean.   *)
(***************************************************************************)
\* C15: every operation that creates, replaces or deletes the cached tree,
\* the extraction directory or the lockfile is a step of a process that holds
\* the exclusive lock, and a clean running beside the acquisitions never
\* lets two processes be inside download+extraction at once.
C15_WritersHoldTheLock ==
    /\ [][(cacheDir' # cacheDir \/ tmpDir' # tmpDir \/ (lockFile /\ ~lockFile'))
            => \E p \in lockHolder : pc'[p] # pc[p]]_vars
    /\ [](Cardinality({p \in Procs : InBlock(p)}) <= 1)

\* After a clean two processes are inside download+extraction at once, each
\* holding the flock on a lockfile of its own.
C15_TwoExtractorsAfterClean ==
    /\ clPc = "idle" /\ cleans > 0
    /\ \E p, q \in lockHolder :
          /\ p # q /\ fd[p] # fd[q]
          /\ InBlock(p) /\ InBlock(q)

\* What does hold: without the clean, every such operation is a step of a
\* lock holder (checked under SpecCache).
C15_AcquisitionsWriteUnderTheLock ==
    [][(cacheDir' # cacheDir \/ tmpDir' # tmpDir \/ (lockFile /\ ~lockFile'))
         => \E p \in lockHolder : pc'[p] # pc[p]]_vars

(***************************************************************************)
(* Claims about the lock wait, checked under SpecLockWait.                 *)
(***************************************************************************)
\* C16: a call that cannot obtain the lock polls again no sooner than 500 ms
\* after the previous poll, goes on polling only while less than 600 s have
\* elapsed, returns CacheLockTimeout at the first failed poll after 600 s
\* without having entered download+extraction, and has emitted the warning
\* exactly once however many polls failed.
C16_PollsThenTimesOut ==
    /\ (lwPc = "poll" /\ lastPoll >= 0) => now - lastPoll >= LOCK_POLL_INTERVAL
    /\ (lwPc = "sleep") => (lastPoll = now /\ now < LOCK_TIMEOUT * 1000)
    /\ (lwRet = "CacheLockTimeout") =>
          /\ now >= LOCK_TIMEOUT * 1000
          /\ ~lwPerformed
          /\ warnings = 1
    /\ warnings <= 1
    /\ (lwPc = "sleep" \/ now > 0) => warnings = 1

\* C16 witness: the call timed out after 600 s of failed polls, one warning.
C16_Witness ==
    /\ lwPc = "done"
    /\ lwRet = "CacheLockTimeout"
    /\ now >= LOCK_TIMEOUT * 1000
    /\ warnings = 1
    /\ ~lwPerformed

\* C17: ensure_jdk returns the cache directory on the fast path or on the
\* re-check only when the directory is complete (it exists and holds
\* bin/java), and a call that finds the directory without bin/java takes the
\* slow path.
C17_ReturnedOnlyWithBinJava ==
    [][\A p \in Procs :
         /\ (ret[p] = None /\ ret'[p] = "path" /\ via'[p] \in {"fast", "recheck"})
               => cacheDir = "complete"
         /\ (pc[p] = "start" /\ pc'[p] # "start" /\ cacheDir = "partial")
               => pc'[p] = "open"]_vars

\* A call returned, on the fast path, a directory that run_clean had begun to
\* empty.
C17_ReturnedWithoutBinJava ==
    \E p \in Procs :
        /\ ret[p] = "path" /\ via[p] = "fast"
        /\ cacheDir = "partial"
        /\ clPc = "removing"

(***************************************************************************)
(* Claims about the hashes of the stub, checked under SpecPack.            *)
(***************************************************************************)
\* The content of the region named r of the output file.
RegionContent(r) ==
    LET i == CHOOSE i \in 1..Len(outFile) : outFile[i].k = "region" /\ outFile[i].at = r
    IN  FileContent(outFile[i].at)

RT_HASH == ShellValue(stub, "RT_HASH")
APP_HASH == ShellValue(stub, "APP_HASH")
CRAC_HASH == ShellValue(stub, "CRAC_HASH")

\* C18: in every produced binary RT_HASH, APP_HASH, and CRAC_HASH when a
\* checkpoint is embedded, are the content hashes of the bytes of the runtime,
\* application and checkpoint regions that follow the stub.
C18_HashesAreOfTheRegions ==
    pkPc = "done"
        => /\ RT_HASH = hash_file(RegionContent("runtime.tar.gz"))
           /\ APP_HASH = hash_file(RegionContent("app.jar.gz"))
           /\ opts.has_crac => CRAC_HASH = hash_file(RegionContent("checkpoint.tar.gz"))

\* C18 (amended): RT_HASH, and CRAC_HASH when a checkpoint is embedded, are the
\* content hashes of the bytes of their regions; APP_HASH is the content hash
\* of the application archive as given, not of the gzipped bytes of its region.
C18_AppHashIsOfTheOriginalJar ==
    pkPc = "done"
        => /\ RT_HASH = hash_file(RegionContent("runtime.tar.gz"))
           /\ APP_HASH = hash_file(FileContent("app.jar"))
           /\ APP_HASH # hash_file(RegionContent("app.jar.gz"))
           /\ opts.has_crac => CRAC_HASH = hash_file(RegionContent("checkpoint.tar.gz"))

\* C18 witness: a binary with a checkpoint was produced.
C18_Witness ==
    /\ pkPc = "done"
    /\ opts.has_crac
    /\ Len(SelectSeq(outFile, LAMBDA c : c.k = "region")) = 3
    /\ APP_HASH = hash_file(FileContent("app.jar"))

(***************************************************************************)
(* C19: when a checkpoint is embedded and the host is Linux, the launcher   *)
(* first attempts the CRaC restore, and after any failure of that attempt   *)
(* (the restored java exiting non-zero included) it executes the normal     *)
(* launch: it never ends after a failed restore without having tried        *)
(* `java ... -jar app.jar`.                                                 *)
(***************************************************************************)
C19_FailedRestoreFallsBackToNormalLaunch ==
    /\ (CracBranchTaken /\ normalLaunch) => restoreTried
    /\ (restoreFailed /\ lnPc = "done") => normalLaunch

\* C19, the run that refutes it: the restore java ran, failed and its exit
\* ended the process.
C19_EndedAfterFailedRestore ==
    /\ CracBranchTaken
    /\ lnPc = "done"
    /\ lnExit = JAVA_RESTORE_FAILED
    /\ ~normalLaunch

\* C19, what the script does guarantee: the restore is tried before the
\* normal launch, and the normal launch follows a restore attempt only when
\* java itself could not be run.
C19_RestoreTriedFirst ==
    /\ (CracBranchTaken /\ normalLaunch) => restoreTried
    /\ (restoreTried /\ normalLaunch) => lnExit # JAVA_RESTORE_FAILED

(***************************************************************************)
(* C20: detect_modules returns exactly the default module set               *)
(* java.base,java.logging,java.sql,java.naming,java.management,             *)
(* java.instrument,java.desktop,java.xml,java.net.http whenever jdeps exits *)
(* non-zero or prints empty output, and a jdeps failure of any kind never   *)
(* aborts the pipeline.                                                     *)
(***************************************************************************)
JdepsFellBack ==
    output.ran /\ (~success(output.status) \/ trim(output.stdout) = <<>>)

C20_DefaultSetOnFailureAndNeverAborts ==
    /\ (mdPc \in {"returned", "continued"} /\ JdepsFellBack)
           => mdRet = OkModules(CommonModules)
    /\ ~(mdPc = "aborted" /\ mdRet.message = FAILED_TO_RUN)

\* C20, the two runs that refute it.
C20_EmptyOutputGivesJavaBaseOnly ==
    /\ mdPc = "continued"
    /\ success(output.status) /\ trim(output.stdout) = <<>>
    /\ modules = <<"java.base">>

C20_AbortedWhenJdepsCouldNotRun ==
    /\ mdPc = "aborted"
    /\ mdRet = JdepsFailed(FAILED_TO_RUN)

\* C20, the part that holds: a non-zero exit gives the default set and the
\* pipeline goes on.
C20_NonZeroExitGivesDefaultSet ==
    (mdPc \in {"returned", "continued"} /\ output.ran /\ ~success(output.status))
        => mdRet = OkModules(CommonModules)

(***************************************************************************)
(* C21: if the output path is an existing directory, create_binary returns  *)
(* BuildFailed before doing any work: no temporary archive is built, no     *)
(* file is created or modified at the output path, and no permissions are   *)
(* changed.                                                                 *)
(***************************************************************************)
C21_DirectoryOutputRefusedUntouched ==
    (pkPc # "idle" /\ opts.output_is_dir) =>
        /\ pkPc \in {"start", "failed"}
        /\ pkPc = "failed" => pkRet = "BuildFailed"
        /\ stub = <<>>
        /\ outExists /\ outFile = <<>>
        /\ outMode = "other"

C21_Witness ==
    /\ pkPc = "failed"
    /\ opts.output_is_dir
    /\ pkRet = "BuildFailed"

(***************************************************************************)
(* C22: the generated launcher contains the AppCDS flags                    *)
(* (-XX:+AutoCreateSharedArchive -XX:SharedArchiveFile=...) if and only if  *)
(* appcds is true and the java_version passed to the packer is at least     *)
(* 19; otherwise CDS_FLAG is empty.                                         *)
(***************************************************************************)
HasAppCdsFlags(script) == \E i \in 1..Len(script) : script[i].at = "AppCDS"

HasEmptyCdsFlag(script) ==
    \E i \in 1..Len(script) :
        /\ script[i] = Lit(12)
        /\ i > 1 /\ script[i - 1] = Lit(511)

C22_AppCdsIffEnabledAndJava19 ==
    stub # <<>> =>
        /\ HasAppCdsFlags(stub) <=> (opts.appcds /\ opts.java_version >= 19)
        /\ HasEmptyCdsFlag(stub) <=> ~HasAppCdsFlags(stub)
        /\ pkPc = "done" => (HasAppCdsFlags(outFile) <=> HasAppCdsFlags(stub))

C22_Witness ==
    /\ pkPc = "done"
    /\ opts.appcds /\ opts.java_version = 19
    /\ HasAppCdsFlags(outFile)

C22_WitnessBelow19 ==
    /\ pkPc = "done"
    /\ opts.appcds /\ opts.java_version = 18
    /\ ~HasAppCdsFlags(outFile) /\ HasEmptyCdsFlag(outFile)

(***************************************************************************)
(* C23: an invalid profile string or an invalid target string, given on the *)
(* command line or in jbundle.toml, aborts the build command before any     *)
(* pipeline stage starts.                                                   *)
(***************************************************************************)
\* The string main takes for the option resolved last: the command line's,
\* else the file's.
TakenString == or(cur.cli.value, cur.file)

InvalidStringTaken ==
    \/ cur.opt = "target" /\ TakenString # None
          /\ TakenString \notin {"linux-x64", "linux-aarch64", "macos-x64", "macos-aarch64"}
    \/ cur.opt = "profile" /\ TakenString # None
          /\ TakenString \notin {"cli", "server"}

C23_WitnessTarget ==
    /\ cfPc = "aborted"
    /\ cur.opt = "target" /\ cur.cli.value = "windows-x64"
    /\ ~pipelineStarted

(***************************************************************************)
(* C24: for every build option that both the command line and jbundle.toml  *)
(* can set, when the command line gives a value the effective BuildConfig   *)
(* value equals the command-line value regardless of the config file, and   *)
(* when it does not, the config-file value (else the default) is used.      *)
(***************************************************************************)
\* The defaults of main.rs:81-162.
DefaultOf(opt) ==
    CASE opt = "target" -> "current"
      [] opt = "java_version" -> "21"
      [] opt = "jvm_args" -> "[]"
      [] opt = "profile" -> "server"
      [] opt = "appcds" -> "true"
      [] opt \in {"shrink", "crac", "compact_banner"} -> "false"
      [] OTHER -> None

CliWins(o) ==
    IF o.cli.given THEN o.cli.value ELSE unwrap_or(o.file, DefaultOf(o.opt))

C24_CommandLineWins ==
    (cur.opt # None /\ cfPc # "aborted") => buildConfig[cur.opt] = CliWins(cur)

\* C24, the run that refutes it: `--shrink false` with `shrink = true` in
\* jbundle.toml builds with shrink on.
C24_ShrinkFalseOverriddenByFile ==
    /\ pipelineStarted
    /\ buildConfig["shrink"] = "true"
    /\ cur.opt = "jlink_runtime"

C24_ShrinkResolvedAgainstCommandLine ==
    /\ cur.opt = "shrink"
    /\ cur.cli.given /\ cur.cli.value = "false" /\ cur.file = "true"
    /\ buildConfig["shrink"] = "true"

\* C24, what holds: the claim for every option but shrink, and for shrink
\* unless the command line gives it the value false.
C24_CommandLineWinsButShrinkFalse ==
    (cur.opt # None /\ cfPc # "aborted"
        /\ ~(cur.opt = "shrink" /\ cur.cli.given /\ cur.cli.value = "false"))
      => buildConfig[cur.opt] = CliWins(cur)

(***************************************************************************)
(* C25: a transfer attempt that ends with a permanent error (HTTP 4xx other *)
(* than 429) makes download_jdk return JdkDownload immediately: no sleep,   *)
(* no further attempt, and no file left at the destination path, whichever  *)
(* attempt number it occurs on.                                             *)
(***************************************************************************)
PermanentStatuses == {c \in HttpStatuses : c >= 400 /\ c < 500 /\ c # 429}

IsPermanentHttpError(o) ==
    \E status \in PermanentStatuses, h \in RetryAfterHeaders : o = StatusError(status, h)

Is429(o) == o.kind = "RetryAfter"

HeaderSeconds(h) == IF h[1] = "int" THEN h[2] ELSE 5

C26_RateLimitedSleepsRetryAfterThenRetries ==
    /\ Len(outcomes) <= 3
    /\ Len(sleeps) <= 2
    /\ \A i \in 1..Len(outcomes) :
          Is429(outcomes[i]) =>
              /\ i < 3 => /\ Len(sleeps) >= i
                          /\ sleeps[i] = HeaderSeconds(outcomes[i].header)
                          /\ dlPc = "done" => Len(outcomes) > i
              /\ i = 3 => /\ Len(sleeps) = 2
                          /\ dlPc = "done" /\ dlRet = "JdkDownload"
    /\ dlPc = "sleep" => attempt = Len(outcomes)

C26_Witness ==
    /\ Len(outcomes) = 3
    /\ Is429(outcomes[1]) /\ outcomes[1].header = <<"int", MaxRetryAfter>>
    /\ Is429(outcomes[2]) /\ outcomes[2].header = <<"text">>
    /\ Is429(outcomes[3])
    /\ sleeps = <<MaxRetryAfter, 5>>
    /\ dlRet = "JdkDownload"

(***************************************************************************)
(* C27: for every archive, every non-directory entry of uncompressed size   *)
(* at least 1 MiB whose path is not under META-INF/ yields a "Large         *)
(* resource" issue naming that entry in the analyzer report, whatever the   *)
(* entry's file suffix.                                                     *)
(***************************************************************************)
HasLargeIssue(name) ==
    \E i \in 1..Len(issues) : issues[i].kind = "Large resource" /\ issues[i].name = name

C27_EveryLargeEntryOutsideMetaInfIsReported ==
    anRet = "Ok" =>
        \A i \in 1..Len(anJar) :
            (/\ ~is_dir(anJar[i].name)
             /\ anJar[i].size >= 1048576
             /\ ~starts_with(anJar[i].name, META_INF))
                => HasLargeIssue(anJar[i].name)

\* C27, the run that refutes it: a native library of 2 MiB is not reported.
C27_LargeNativeLibNotReported ==
    /\ anRet = "Ok"
    /\ \E i \in 1..Len(anJar) :
          /\ classify_entry(anJar[i].name) = "NativeLib"
          /\ anJar[i].size >= 1048576
          /\ ~HasLargeIssue(anJar[i].name)

\* C27 as the code has it: the entries reported are those of at least 1 MiB
\* that classify_entry calls a resource.
IsLargeResourceEntry(entry) ==
    /\ ~is_dir(entry.name)
    /\ entry.size >= 1048576
    /\ classify_entry(entry.name) = "Resource"

C27_EveryLargeResourceIsReported ==
    anRet = "Ok" =>
        /\ \A i \in 1..Len(anJar) :
              IsLargeResourceEntry(anJar[i]) => HasLargeIssue(anJar[i].name)
        /\ \A k \in 1..Len(issues) :
              issues[k].kind = "Large resource" =>
                  \E i \in 1..Len(anJar) :
                      /\ IsLargeResourceEntry(anJar[i])
                      /\ anJar[i].name = issues[k].name
                      /\ anJar[i].size = issues[k].n

C27_Witness ==
    /\ anRet = "Ok"
    /\ \E i \in 1..Len(anJar) :
          /\ classify_entry(anJar[i].name) = "Resource"
          /\ anJar[i].size = 1048576
          /\ HasLargeIssue(anJar[i].name)

(***************************************************************************)
(* C28: hash_file is deterministic and returns exactly 16 lowercase hex     *)
(* characters, and for any two files x and y, hash_file(x) = hash_file(y)   *)
(* if and only if SHA-256(x) = SHA-256(y), so two different app archives    *)
(* never share a launcher cache directory app-{hash}.                       *)
(***************************************************************************)
IsLowerHex16(str) ==
    /\ Len(str) = 16
    /\ \A i \in 1..Len(str) :
          str[i] \in {"0", "1", "2", "3", "4", "5", "6", "7", "8", "9",
                      "a", "b", "c", "d", "e", "f"}

C28_DifferentDigestsSameHash ==
    /\ hPc = "done"
    /\ Sha256(fileX) # Sha256(fileY)
    /\ hashes[1] = hashes[2]

UnderMetaInf(name) == starts_with(name, <<"M", "E", "T", "A", "-", "I", "N", "F", "/">>)

RuleMaven(name) ==
    starts_with(name, <<"M", "E", "T", "A", "-", "I", "N", "F", "/", "m", "a", "v", "e", "n", "/">>)

RuleSignature(name) ==
    /\ UnderMetaInf(name)
    /\ \E suffix \in {<<".", "S", "F">>, <<".", "D", "S", "A">>,
                      <<".", "R", "S", "A">>, <<".", "E", "C">>} : ends_with(name, suffix)

RuleJavaSource(name) == ends_with(name, <<".", "j", "a", "v", "a">>)

RuleBuildTool(name) ==
    \/ starts_with(name, <<"M", "E", "T", "A", "-", "I", "N", "F", "/",
                           "l", "e", "i", "n", "i", "n", "g", "e", "n", "/">>)
    \/ name = <<"p", "r", "o", "j", "e", "c", "t", ".", "c", "l", "j">>

RuleDocumentation(name) ==
    /\ UnderMetaInf(name)
    /\ \E suffix \in {<<".", "m", "d">>, <<".", "t", "x", "t">>, <<".", "h", "t", "m", "l">>} :
          ends_with(to_lowercase(name), suffix)
    /\ ~starts_with(to_lowercase(Basename(name)), <<"l", "i", "c", "e", "n", "s", "e">>)
    /\ ~starts_with(to_lowercase(Basename(name)), <<"n", "o", "t", "i", "c", "e">>)

MatchesASkipRule(name) ==
    \/ RuleMaven(name)
    \/ RuleSignature(name)
    \/ RuleJavaSource(name)
    \/ RuleBuildTool(name)
    \/ RuleDocumentation(name)

C29_SkipIffARuleMatches ==
    skPc = "done" =>
        /\ skResult \in BOOLEAN
        /\ skResult = should_skip(skName)
        /\ skResult <=> MatchesASkipRule(skName)

C29_Witness ==
    /\ skPc = "done"
    /\ skName = <<"M", "E", "T", "A", "-", "I", "N", "F", "/", "x", "/",
                  "C", "E", "R", "T", ".", "E", "C">>
    /\ RuleSignature(skName) /\ skResult

C29_WitnessDocumentation ==
    /\ skPc = "done"
    /\ skName = <<"M", "E", "T", "A", "-", "I", "N", "F", "/",
                  "R", "E", "A", "D", "M", "E", ".", "T", "X", "T">>
    /\ RuleDocumentation(skName) /\ skResult

C29_WitnessKept ==
    /\ skPc = "done"
    /\ skName = <<"c", "o", "m", "/", "R", "E", "A", "D", "M", "E", ".", "t", "x", "t">>
    /\ ~MatchesASkipRule(skName) /\ ~skResult

(***************************************************************************)
(* Claims about the re-check of ensure_jdk under the lock, checked under   *)
(* SpecCache.                                                              *)
(***************************************************************************)
\* The calls whose re-check under the lock found the cache populated.
ReturnedOnRecheck(p) == via[p] = "recheck"

\* mod.rs:63-67: a call that returned on the re-check came after another call's
\* extraction, gave the lock back, returned the cache path and never entered the
\* block that fetches the release metadata, downloads and extracts.
RecheckHitDidNoWork ==
    \A p \in Procs :
        ReturnedOnRecheck(p) =>
            /\ pc[p] = "done" /\ ret[p] = "path"
            /\ p \notin lockHolder
            /\ ~performed[p] /\ ~downloaded[p] /\ ~extracted[p]
            /\ \E q \in Procs \ {p} : extracted[q]
            /\ cacheDir = "complete"

\* C30 (as stated): a call that acquires the lock after another call populated
\* the cache returns the path on the re-check without fetching, downloading or
\* extracting; and once the concurrent calls on a cold cache have returned (none
\* with an I/O error), download was invoked exactly once.
C30_DownloadInvokedExactlyOnce ==
    /\ RecheckHitDidNoWork
    /\ (\A p \in Procs : pc[p] = "done" /\ ret[p] # "Io")
          => Cardinality({p \in Procs : downloaded[p]}) = 1

\* C30 (amended): a call that acquires the lock after another call populated the
\* cache returns the path on the re-check without fetching, downloading or
\* extracting; when every concurrent call on a cold cache returned a path or
\* CacheLockTimeout, download was invoked exactly once; a call whose download
\* was invoked and that did not return the path returned its own error, and
\* the calls after it may invoke download again.
C30_RecheckHitSkipsDownload ==
    /\ RecheckHitDidNoWork
    /\ (\A p \in Procs : pc[p] = "done" /\ ret[p] \in {"path", "CacheLockTimeout"})
          => Cardinality({p \in Procs : downloaded[p]}) = 1
    /\ \A p \in Procs :
          /\ downloaded[p] => performed[p]
          /\ downloaded[p] /\ pc[p] = "done" /\ ret[p] # "path"
                => ret[p] \in {"JdkDownload", "ChecksumMismatch", "Io"}

\* C30 witness: every call has returned the path; one downloaded and populated
\* the cache, another waited for the lock and returned on the re-check.
C30_Witness ==
    /\ \A p \in Procs : pc[p] = "done" /\ ret[p] = "path"
    /\ \E p, q \in Procs :
          /\ p # q
          /\ downloaded[p] /\ via[p] = "populate"
          /\ warned[q] /\ ReturnedOnRecheck(q) /\ ~downloaded[q]

\* C30: a holder's download failed and the next holder downloaded again.
C30_WitnessSecondDownload ==
    \E p, q \in Procs :
        /\ p # q
        /\ downloaded[p] /\ ret[p] = "JdkDownload"
        /\ downloaded[q] /\ via[q] = "populate"

(***************************************************************************)
(* Claims about the release of the lock, checked under SpecCacheFair.      *)
(***************************************************************************)
\* The call of p took the lock, entered the block and returned its error.
HolderFailed(p) == pc[p] = "done" /\ performed[p] /\ ret[p] \in CacheErrors

\* Some call is in the poll loop of mod.rs:41-58.
SomeoneWaits == \E q \in Procs : pc[q] = "poll"

\* A call returns CacheLockTimeout only at a poll that found the lock held.
TimeoutOnlyWhileHeld ==
    \A q \in Procs :
        ret[q] # "CacheLockTimeout" /\ ret'[q] = "CacheLockTimeout" => HoldersOf(fd[q]) # {}

\* C31: a call that has returned (on the re-check, after populating, or with the
\* error of its release lookup, download or extraction) no longer holds the
\* lock; a waiter times out only while the lock is held; and once a holder has
\* failed and the lock is free, a waiting call acquires the lock and enters its
\* own acquisition.
C31_LockReleasedOnEveryExit ==
    /\ [](\A p \in Procs : pc[p] \in {"done", "crashed"} => p \notin lockHolder)
    /\ [][TimeoutOnlyWhileHeld]_vars
    /\ ((\E p \in Procs : HolderFailed(p))
            /\ lockHolder = {} /\ ~CachePathExists(cacheDir) /\ SomeoneWaits)
          ~> (\E q \in Procs : pc[q] = "fetch")

\* C31 witness: a holder failed and returned its error; a call that had found
\* the lock busy has since taken the lock and entered its own acquisition.
C31_Witness ==
    \E p, q \in Procs :
        /\ p # q
        /\ HolderFailed(p) /\ p \notin lockHolder
        /\ warned[q] /\ performed[q] /\ q \in lockHolder

(***************************************************************************)
(* Claims about the file found at the download destination, checked under  *)
(* SpecDownload.                                                           *)
(***************************************************************************)
\* The file at dest before the first attempt has the asset's SHA-256.
ExistingVerified == dest # <<>> /\ file_sha256(dest[1]) = expected_sha

\* download.rs:27-33, as one step of the call whose hashing succeeded: a verified
\* file is returned as it is, with no attempt made; a file with another hash is
\* gone when the first attempt starts.
CheckExistingStep ==
    (dlPc = "start" /\ dlPc' # "start" /\ dlRet' # "Io") =>
        /\ ExistingVerified =>
              dlPc' = "done" /\ dlRet' = "Ok" /\ dest' = dest /\ outcomes' = <<>> /\ attempt' = 0
        /\ ~ExistingVerified =>
              dlPc' = "attempt" /\ attempt' = 1 /\ dest' = <<>> /\ outcomes' = <<>>

\* C32: a file at dest whose SHA-256 is the asset checksum is returned without
\* any HTTP attempt; a file with another hash is deleted before the first
\* attempt starts; and the file a successful return after an attempt refers to
\* is the one the last transfer wrote, never the stale one.
C32_VerifiedFileReusedStaleFileDeleted ==
    /\ [][CheckExistingStep]_vars
    /\ [](dlRet = "Ok" /\ outcomes = <<>> => dest = <<asset>> /\ attempt = 0 /\ sleeps = <<>>)
    /\ [](dlRet = "Ok" /\ outcomes # <<>>
             => /\ dest = outcomes[Len(outcomes)].wrote
                /\ dest = <<asset>>
                /\ hashed = dest)
    /\ [](dlRet = "Io" => outcomes = <<>>)

\* C32 witness: a verified file was found and returned with no attempt made.
C32_Witness ==
    /\ dlPc = "done" /\ dlRet = "Ok"
    /\ outcomes = <<>> /\ attempt = 0
    /\ dest = <<asset>> /\ hashed = dest

\* C32 witness: a stale file was found and deleted, and the call returned the
\* file that its transfer wrote.
C32_WitnessStale ==
    /\ dlPc = "done" /\ dlRet = "Ok"
    /\ Len(outcomes) = 1
    /\ outcomes[1].kind = "Ok" /\ dest = outcomes[1].wrote

InitFixpoint ==
    FxInit /\ CacheIdle /\ DlIdle /\ PkIdle /\ SkIdle /\ ShIdle /\ BIdle /\ VIdle /\ LwIdle
    /\ LnIdle /\ MdIdle /\ CfIdle /\ AnIdle /\ HIdle /\ LcIdle /\ CkIdle

SpecFixpoint == InitFixpoint /\ [][NextFixpoint]_vars

(***************************************************************************)
(* Claims about the loop of finalize_stub, checked under SpecFixpoint.     *)
(***************************************************************************)
\* n = base_len + decimal_digits(n)
IsFixpoint(b, n) == n = b + Digits(n)

\* C33: for every base length the loop ends after at most 2 passes, and the size
\* it ends with is a fixpoint of n = base_len + decimal_digits(n): it is the
\* byte length of the stub once the placeholder is replaced by that number.
C33_LoopReachesFixpointInTwoPasses ==
    /\ iterations <= 2
    /\ fxPc = "loop" => iterations <= 1
    /\ fxPc = "done" =>
          /\ iterations >= 1
          /\ IsFixpoint(fxBaseLen, fxSize)
          /\ fxSize = FixSize(fxBaseLen, fxBaseLen + 1)

\* C33 witness: base length 98, where the first candidate 100 has one digit more
\* than 99: the loop ends with 101 after its second pass.
C33_Witness ==
    /\ fxPc = "done"
    /\ fxBaseLen = 98 /\ fxSize = 101 /\ iterations = 2

\* C33 witness: base length 997 ends with 1001 after two passes.
C33_Witness997 ==
    /\ fxPc = "done"
    /\ fxBaseLen = 997 /\ fxSize = 1001 /\ iterations = 2

\* C33 witness: base lengths 8 and 9 end after one pass, with 9 and 11.
C33_WitnessOnePass ==
    /\ fxPc = "done" /\ iterations = 1
    /\ \/ fxBaseLen = 8 /\ fxSize = 9
       \/ fxBaseLen = 9 /\ fxSize = 11

(***************************************************************************)
(* Claims about the class-version probe, checked under SpecValidate.       *)
(***************************************************************************)
\* The entries before the loop variable whose name ends in .class and is not
\* under META-INF/versions/.
ExaminedIdx ==
    {i \in 1..(vIdx - 1) :
        /\ i <= Len(vArchive)
        /\ ends_with(vArchive[i].name, DOT_CLASS)
        /\ ~starts_with(vArchive[i].name, META_INF_VERSIONS)}

\* Those of them with at least 8 bytes and the CAFEBABE magic.
ValidIdx == {i \in ExaminedIdx : vArchive[i].data.len8 /\ vArchive[i].data.magic}

MajorAt(i) == vArchive[i].data.b6 * 256 + vArchive[i].data.b7

\* C34: the probe examines at most `limit` entries whose name ends in .class and
\* is not under META-INF/versions/; every such entry counts, also one that is
\* shorter than 8 bytes or lacks the magic; only the valid examined entries
\* contribute, and the probe's maximum is the largest major version among them
\* (none when there is none).  The loop ends at the end of the archive or at
\* the limit.
C34_ProbeIsMaxOverValidExamined ==
    (vPc \in {"scan", "resolve", "done"} /\ vIdx >= 1) =>
        /\ checked <= limit
        /\ checked = Cardinality(ExaminedIdx)
        /\ max = <<>> <=> ValidIdx = {}
        /\ max # <<>> =>
              /\ max[1].class_file \in ValidIdx
              /\ max[1].major_version = MajorAt(max[1].class_file)
              /\ \A i \in ValidIdx : MajorAt(i) <= max[1].major_version
        /\ (vPc \in {"resolve", "done"} /\ vRet.tag # "io")
              => (vIdx > Len(vArchive) \/ checked = limit)

\* C34 witness: a multi-release copy of major version 66 and a class without
\* the magic come before a class of major version 61: the probe gives 61, with
\* two entries examined.
C34_Witness ==
    /\ vPc = "done" /\ vRet.tag # "io"
    /\ Len(vArchive) = 3
    /\ vArchive[1].name = VersionedName /\ MajorAt(1) = 66
    /\ vArchive[2].name = ClassName /\ ~vArchive[2].data.magic
    /\ vArchive[3].name = ClassName /\ MajorAt(3) = 61
    /\ checked = 2
    /\ max # <<>> /\ max[1].major_version = 61

\* C34 witness: a short class and a class without the magic use up the limit;
\* the valid class after them is not examined and the probe finds nothing.
C34_WitnessLimit ==
    /\ vPc = "done" /\ vRet.tag # "io"
    /\ Len(vArchive) = limit + 1
    /\ \A i \in 1..limit : vArchive[i].name = ClassName /\ ~vArchive[i].data.magic
    /\ vArchive[limit + 1].name = ClassName /\ vArchive[limit + 1].data.magic
    /\ checked = limit /\ vIdx = limit + 1
    /\ max = <<>>

(***************************************************************************)
(* Claims about the modules step of run_build, checked under SpecModules.  *)
(***************************************************************************)
\* The fields of a comma-separated list, as a set.
FieldSet(str) == LET fields == split(str) IN {fields[i] : i \in 1..Len(fields)}

NoDuplicateFields(str) ==
    LET fields == split(str)
    IN  \A i, j \in 1..Len(fields) : fields[i] = fields[j] => i = j

\* The strings of a Vec<String>, as a set.
Elements(list) == {list[i] : i \in 1..Len(list)}

C35_WitnessOverride ==
    /\ mdPc = "continued"
    /\ modules_override = << << <<"java.sql">>, <<"java.base">> >> >>
    /\ modules = <<"java.sql", ",", "java.base">>
    /\ ~output.ran

(***************************************************************************)
(* Claims about the reuse of a provided runtime image, under SpecBuild.    *)
(***************************************************************************)
StageStarted(stage) == \E i \in 1..Len(started) : started[i] = stage

\* --jlink-runtime names a path that exists and holds bin/java.
RuntimeUsable == config.jlink_runtime.given /\ config.jlink_runtime.exists
                    /\ config.jlink_runtime.bin_java

\* --jlink-runtime names a path that does not exist or lacks bin/java.
RuntimeUnusable == config.jlink_runtime.given /\ ~RuntimeUsable

\* C36: with a usable --jlink-runtime the image linker is never run, the
\* runtime handed to the later stages and packed is the provided directory,
\* and no stage writes to it; with an unusable one the check does not end the
\* run, and the runtime stage runs the image linker and hands on the image it
\* made in the temporary directory, as without the option.
C36_ProvidedRuntimeReusedOrIgnored ==
    bPc # "idle" =>
        /\ RuntimeUsable =>
              /\ rt.linker_runs = 0
              /\ StageStarted("jdk") => rt.existing_runtime = PROVIDED
              /\ rt.runtime_path \in {None, PROVIDED}
              /\ (StageStarted("runtime") /\ bRet # "err") => rt.runtime_path = PROVIDED
              /\ StageStarted("pack") /\ bRet = "ok" => rt.packed = PROVIDED
              /\ PROVIDED \notin rt.written
        /\ ~RuntimeUsable =>
              /\ rt.existing_runtime = None
              /\ rt.runtime_path \in {None, TEMP_RUNTIME}
              /\ StageStarted("runtime") => rt.linker_runs = 1
              /\ ~StageStarted("runtime") => rt.linker_runs = 0
              /\ StageStarted("pack") /\ bRet = "ok" => rt.packed = TEMP_RUNTIME
              /\ PROVIDED \notin rt.written
        /\ (bPc = "jdk" /\ ~StageStarted("jdk")) => bRet = None

\* C36 witness: a run with a usable provided runtime ended well and packed it.
C36_Witness ==
    /\ bPc = "done" /\ bRet = "ok"
    /\ RuntimeUsable
    /\ rt.packed = PROVIDED /\ rt.linker_runs = 0

\* C36 witness: the provided path exists without bin/java; the run ended well
\* with the image that the linker made.
C36_WitnessUnusable ==
    /\ bPc = "done" /\ bRet = "ok"
    /\ RuntimeUnusable /\ config.jlink_runtime.exists
    /\ rt.packed = TEMP_RUNTIME /\ rt.linker_runs = 1

(***************************************************************************)
(* Runs of a packed executable over one cache.                              *)
(***************************************************************************)
InitLaunchCache ==
    LcInit /\ CacheIdle /\ DlIdle /\ PkIdle /\ SkIdle /\ ShIdle /\ BIdle /\ VIdle /\ LwIdle
    /\ LnIdle /\ MdIdle /\ CfIdle /\ AnIdle /\ HIdle /\ FxIdle /\ CkIdle

SpecLaunchCache == InitLaunchCache /\ [][NextLaunchCache]_vars

(***************************************************************************)
(* Claims about the launcher's cache, checked under SpecLaunchCache.        *)
(***************************************************************************)
\* C37: once some run has completed extraction, a run started later extracts
\* nothing (neither the runtime, nor app.jar, nor the checkpoint in the CRaC
\* branch), and launches the same java and app.jar paths as every other run.
C37_LaterRunsExtractNothing ==
    \A r \in Runs :
        afterComplete[r] =>
            /\ did_extract[r] = {}
            /\ runPc[r] \notin {"runtime_tar", "app_open", "app_gzip", "crac_tar", "stopped"}
            /\ runPc[r] = "done" =>
                  /\ did_skip[r] = IF CracBranch THEN {"rt", "app", "crac"} ELSE {"rt", "app"}
                  /\ \A q \in Runs : runPc[q] = "done" =>
                        /\ launchedFrom[q].java = launchedFrom[r].java
                        /\ launchedFrom[q].jar = launchedFrom[r].jar

\* A later run in the CRaC branch has launched having found all three cached.
C37_Witness ==
    \E r \in Runs :
        /\ afterComplete[r] /\ runPc[r] = "done" /\ CracBranch
        /\ did_skip[r] = {"rt", "app", "crac"}
        /\ \E q \in Runs \ {r} : did_extract[q] = {"rt", "app", "crac"}

\* A later run outside the CRaC branch has launched without extracting.
C37_WitnessNoCheckpoint ==
    \E r \in Runs :
        /\ afterComplete[r] /\ runPc[r] = "done" /\ ~CracBranch
        /\ did_skip[r] = {"rt", "app"}

\* C38: a run that skipped the extraction of the runtime or of app.jar
\* launches a complete runtime and a complete app.jar.
C38_SkippedExtractionLaunchesComplete ==
    \A r \in Runs :
        (runPc[r] = "done" /\ did_skip[r] \cap {"rt", "app"} # {}) =>
            /\ launchedFrom[r].rt_complete
            /\ launchedFrom[r].app_complete

\* A run found bin/ left by an interrupted extraction and launched a runtime
\* without bin/java.
C38_LaunchedIncompleteRuntime ==
    \E r \in Runs :
        /\ runPc[r] = "done" /\ "rt" \in did_skip[r]
        /\ ~launchedFrom[r].rt_complete
        /\ \E q \in Runs \ {r} : runPc[q] = "stopped"

\* A run found app.jar while another run was still writing it and launched it.
C38_LaunchedPartialJarConcurrently ==
    \E r \in Runs :
        /\ runPc[r] = "done" /\ "app" \in did_skip[r]
        /\ ~launchedFrom[r].app_complete
        /\ \A q \in Runs : runPc[q] # "stopped"

(***************************************************************************)
(* One call of create_checkpoint.                                           *)
(***************************************************************************)
InitCheckpoint ==
    CkInit /\ CacheIdle /\ DlIdle /\ PkIdle /\ SkIdle /\ ShIdle /\ BIdle /\ VIdle /\ LwIdle
    /\ LnIdle /\ MdIdle /\ CfIdle /\ AnIdle /\ HIdle /\ FxIdle /\ LcIdle

SpecCheckpoint == InitCheckpoint /\ [][NextCheckpoint]_vars

(***************************************************************************)
(* Claims about create_checkpoint, checked under SpecCheckpoint.            *)
(***************************************************************************)
ReturnedAfterSpawn == ckPc = "done" /\ child # "none"

\* C39: when create_checkpoint has returned after spawning the application,
\* the application has exited or has been killed and reaped: it is not running.
C39_ReturnNeverLeavesChildRunning ==
    ReturnedAfterSpawn => child \in {"exited", "reaped"}

\* create_checkpoint returned "failed to run jcmd" and the application runs on.
C39_ReturnedWithChildRunning ==
    /\ ckPc = "done" /\ ckRet = FAILED_TO_RUN_JCMD
    /\ child = "running"

\* On every other return path after the spawn the application has been reaped.
C39_OtherPathsReapChild ==
    (ReturnedAfterSpawn /\ ckRet # FAILED_TO_RUN_JCMD) => child = "reaped"

(***************************************************************************)
(* C40: create_binary and the output path on failure, checked under         *)
(* SpecPack.                                                                *)
(***************************************************************************)
OldFile == <<Region(PayloadUnit, "old")>>

OutputAbsentOrOld == ~outExists \/ outFile = OldFile

\* C40: when create_binary has returned an error, the output path holds no
\* partially written binary: it is absent, a directory, or the file that was
\* there before the call.
C40_ErrorLeavesNoPartialBinary ==
    (pkPc = "failed" /\ ~opts.output_is_dir) => OutputAbsentOrOld

\* An older executable at the output path was truncated, got the stub alone,
\* and kept its executable permission when an append failed.
C40_TruncatedExecutableLeft ==
    /\ pkPc = "failed" /\ pkRet = "Io"
    /\ outExists /\ outMode = "0755"
    /\ outFile = stub

\* A new file was left holding the stub and the runtime only.
C40_NewPartialFileLeft ==
    /\ pkPc = "failed" /\ pkRet = "Io"
    /\ outExists /\ outMode = "other"
    /\ outFile = Append(stub, Region(opts.runtime_size, "runtime.tar.gz"))

\* An error before File::create leaves the output path as it was.
C40_ErrorBeforeCreateLeavesOutput ==
    (pkPc = "failed" /\ stub = <<>>) => (OutputAbsentOrOld \/ opts.output_is_dir)

====
